---- MODULE Spec2Model ----
(***************************************************************************)
(* Model of the AI_Quiz application: the quiz page (QuizFlow + QuizTaker), *)
(* the application state store (AppContext) of every browser session, the  *)
(* roster operations of the data-store client (supabaseService) and the    *)
(* data store they talk to.                                                *)
(*                                                                         *)
(* Every browser tab is one session: its own AppProvider (in-memory mirror *)
(* of the store) and its own quiz page.  The administrator's roster page   *)
(* is a further session.  Every network call is a suspension point: the    *)
(* request is started by one action and completed (or failed) by another,  *)
(* so other sessions can act in between.                                   *)
(*                                                                         *)
(* Conventions of the model:                                               *)
(*  - the store applies a request and the caller handles the answer in one *)
(*    step; a rejected request changes nothing in the store;               *)
(*  - the store enforces no constraint of its own (no uniqueness, no       *)
(*    foreign key): the invariants are those the application code keeps;   *)
(*  - users collections are sets of rows (their order by name is not       *)
(*    followed), submissions and attempts are rows in insertion order;     *)
(*  - the administrator runs one roster operation at a time;               *)
(*  - graded, gradedSince and alerted are history variables.               *)
(***************************************************************************)
EXTENDS Integers, Sequences, FiniteSets, TLC

\* ------------------------------------------------------------------ bounds
\* gradings by registered respondents that the model follows
MaxGrades == 2
\* length of an uploaded roster
MaxIncoming == 2
\* ids the store hands out to users
MaxUserId == 3
\* items in the array the generative model answers with
MaxItems == 2
\* ids the store hands out to projects
MaxProjectId == 3
\* user and project operations the administrator starts in a session
MaxCalls == 2
\* questions of the list a QuizTaker on its own is given
MaxQuestions == 2

\* --------------------------------------------------------------- constants
\* the browser sessions: two respondents' tabs and the administrator's
Tabs == {"t1", "t2"}
Admin == "admin"
Sessions == Tabs \cup {Admin}
Null == 0
ProjectId == 1
\* the projects a quiz page can be opened for: the route /quiz/:id
ProjectIds == {ProjectId, ProjectId + 1}
\* the published project's questions (Question: id, correct_answer in 1..4)
Questions ==
    << [id |-> "q1", correct_answer |-> 1], [id |-> "q2", correct_answer |-> 2] >>
NumOptions == 4
QuestionIds == {Questions[i].id : i \in DOMAIN Questions}
\* the 1-based option indexes the respondent clicks on: for every question its
\* correct option and a wrong one (the other wrong options behave alike)
OptionChoices == {k \in 1..NumOptions : \E i \in DOMAIN Questions : Questions[i].correct_answer = k}

\* names are strings, modelled as sequences of characters
InitialUsers == {[id |-> 1, name |-> <<"a">>]}
IncomingNames == {<<"a", " ">>, <<"c">>}

VARIABLES
    dbUsers,     \* store: rows of table users, a set of [id, name]
    dbSubs,      \* store: rows of table submissions, in insertion order
    dbAtts,      \* store: rows of table attempts, in insertion order
    nextUserId,  \* store: the next id handed to an inserted user
    app,         \* AppProvider state of every tab (the in-memory mirror)
    quiz,        \* QuizFlow state of every tab
    taker,       \* QuizTaker state of every tab
    net,         \* network calls in flight of every tab
    alerted,     \* history: the tab has shown the alert() of a failed submit
    graded,      \* history: grade actions by registered respondents, per user
    gradedSince, \* history: the tab graded since it entered taking or retried
    message,     \* MasterListManager: the message shown to the administrator
    del,         \* the deleteUser call in flight
    rep,         \* the replaceUsers call in flight
    gen,         \* the question generation endpoint and the requests sent to it
    dbProjects,  \* store: rows of table projects, a set of [id, name]
    dbQuestions, \* store: rows of table questions, in insertion order
    nextProjectId, \* store: the next id handed to an inserted project
    op,          \* the administrator's user or project operation in flight
    peer,        \* an updateProject call of a second administrator's session
    fetches,     \* QuizFlow: the project ids of the fetches in flight, per tab
    provider,    \* AppProvider: mounted, status check, isGeminiConfigured
    qt           \* a QuizTaker on its own: its props, its state, its callbacks

dbVars == <<dbUsers, dbSubs, dbAtts, nextUserId>>
adminVars == <<message, del, rep>>
\* the state the quiz and roster pages do not touch
projectVars == <<dbProjects, dbQuestions, nextProjectId>>
\* the project fetches of the quiz page and the provider's status check
lateVars == <<fetches, provider>>
otherVars == <<gen, projectVars, op, peer, lateVars, qt>>
\* the state of the quiz pages
pageVars == <<quiz, taker, net, alerted, graded, gradedSince>>
vars == <<dbUsers, dbSubs, dbAtts, nextUserId, app, quiz, taker, net, alerted,
          graded, gradedSince, message, del, rep, gen, dbProjects, dbQuestions,
          nextProjectId, op, peer, fetches, provider, qt>>

\* ----------------------------------------------------------------- helpers
UserIds == 1..MaxUserId

SeqSum(f, S) ==
    LET RECURSIVE Sum(_)
        Sum(T) == IF T = {} THEN 0
                  ELSE LET x == CHOOSE y \in T : TRUE IN f[x] + Sum(T \ {x})
    IN Sum(S)

RemoveAt(s, i) == SubSeq(s, 1, i - 1) \o SubSeq(s, i + 1, Len(s))

\* rows of a submissions / attempts collection for one (project, user) pair
RowsFor(rows, p, u) ==
    {i \in DOMAIN rows : rows[i].projectId = p /\ rows[i].userId = u}

\* QuizFlow.tsx:55 and :209  submissions.some(s => s.userId === u && s.projectId === p)
HasSubmission(subs, p, u) == RowsFor(subs, p, u) # {}

\* ------------------------------------------------------------ QuizTaker
TakerInit ==
    [answers |-> <<>>, showResult |-> FALSE, score |-> 0, isSubmitting |-> FALSE]

\* QuizTaker for the question list it is given
AllAnswered(answers, questions) == Cardinality(DOMAIN answers) = Len(questions)

PerfectScore(score, questions) == Len(questions) > 0 /\ score = Len(questions)

\* variant: every answered question counts
CountAnswered(questions, answers, n) ==
    Cardinality({i \in 1..n : questions[i].id \in DOMAIN answers})

\* gradeQuiz: correctCount after the first n questions of forEach; the
\* answer of a question that has none is undefined and equals no number
RECURSIVE CountCorrect(_, _, _)
CountCorrect(questions, answers, n) ==
    IF n = 0 THEN 0
    ELSE CountCorrect(questions, answers, n - 1)
         + (IF questions[n].id \in DOMAIN answers
               /\ answers[questions[n].id] = questions[n].correct_answer
            THEN 1 ELSE 0)

\* the QuizTaker of a quiz page: its questions are those of the project
isAllAnswered(tk) == AllAnswered(tk.answers, Questions)

isPerfectScore(tk) == PerfectScore(tk.score, Questions)

CorrectCount(answers, n) == CountCorrect(Questions, answers, n)

GradeButtonShown(t) ==
    /\ quiz[t].pageState = "taking"
    /\ Len(Questions) # 0
    /\ ~taker[t].showResult

SubmitButtonShown(t) ==
    /\ quiz[t].pageState = "taking"
    /\ Len(Questions) # 0
    /\ taker[t].showResult
    /\ isPerfectScore(taker[t])

RetryButtonShown(t) ==
    /\ quiz[t].pageState = "taking"
    /\ Len(Questions) # 0
    /\ taker[t].showResult
    /\ ~isPerfectScore(taker[t])

\* AppProvider.renderContent: the children are rendered, or the blocking
\* configuration screen, or the loading text
Rendered(s) ==
    IF ~provider[s].isMounted THEN "unmounted"
    ELSE IF ~app[s].supabaseClient /\ ~app[s].isLoading THEN "configScreen"
    ELSE IF app[s].isLoading THEN "loading"
    ELSE "children"

\* ------------------------------------------------------------- QuizFlow
\* renderContent: the page shows QuizStart / QuizTaker / QuizComplete only
\* when the project is loaded
PageShown(t) ==
    /\ Rendered(t) = "children"
    /\ ~quiz[t].isLoading
    /\ quiz[t].project # Null

\* useEffect [currentUserId, project, submissions, isGuest]
HasSubmittedEffect(q, subs) ==
    IF /\ q.currentUserId # Null
       /\ q.project # Null
       /\ ~q.isGuest
       /\ HasSubmission(subs, q.project, q.currentUserId)
    THEN [q EXCEPT !.pageState = "complete"]
    ELSE q

\* QuizStart.availableUsers
availableUsers(t) ==
    {u \in app[t].users :
        ~HasSubmission(app[t].submissions, quiz[t].project, u.id)}

TotalGraded == SeqSum(graded, UserIds)

\* ------------------------------------------------- roster helpers
IsSpace(c) == c = " "

\* String.prototype.trim on a sequence of characters
RECURSIVE TrimStart(_)
TrimStart(str) ==
    IF str # <<>> /\ IsSpace(Head(str)) THEN TrimStart(Tail(str)) ELSE str

RECURSIVE TrimEnd(_)
TrimEnd(str) ==
    IF str # <<>> /\ IsSpace(str[Len(str)])
    THEN TrimEnd(SubSeq(str, 1, Len(str) - 1))
    ELSE str

Trim(str) == TrimEnd(TrimStart(str))

\* the uploaded rosters the model draws from
RECURSIVE SeqsUpTo(_, _)
SeqsUpTo(S, n) ==
    IF n = 0 THEN {<<>>}
    ELSE LET shorter == SeqsUpTo(S, n - 1)
         IN shorter \cup {Append(s, x) : s \in shorter, x \in S}

IncomingRosters == SeqsUpTo({[name |-> n] : n \in IncomingNames}, MaxIncoming)

\* supabaseService.replaceUsers: the sets and lists it computes
submittedUserIds(submissions) == {submissions[i].userId : i \in DOMAIN submissions}

newNames(usersData) == {Trim(usersData[i].name) : i \in DOMAIN usersData}

\* the keys of existingUsersMap
existingUsersMap(existingUsers) == {Trim(u.name) : u \in existingUsers}

usersToDelete(existingUsers, usersData) ==
    {u \in existingUsers : Trim(u.name) \notin newNames(usersData)}

deletableUserIds(existingUsers, usersData, submitted) ==
    {u.id : u \in {v \in usersToDelete(existingUsers, usersData) : v.id \notin submitted}}

protectedCount(existingUsers, usersData, submitted) ==
    Cardinality({u \in usersToDelete(existingUsers, usersData) : u.id \in submitted})

IsNewName(existingUsers, u) == Trim(u.name) \notin existingUsersMap(existingUsers)

usersToAdd(existingUsers, usersData) ==
    SelectSeq(usersData, LAMBDA u : IsNewName(existingUsers, u))

\* the message of MasterListManager: which text, and the counts it carries
Msg(kind) == [kind |-> kind, added |-> 0, deleted |-> 0, protected |-> 0]
NoMessage == Msg("none")

DelIdle == [pc |-> "idle", id |-> Null]
RepIdle ==
    [pc |-> "idle", usersData |-> <<>>, existingUsers |-> {},
     deletableUserIds |-> {}, protectedCount |-> 0, deletedCount |-> 0]

\* ------------------------------------- question generation: JSON values
\* the three implementations of the endpoint: the edge handler, the node
\* handler and the middleware of the development server
Impls == {"edge", "node", "dev"}
Methods == {"GET", "POST", "PUT"}

\* a JSON field read where a string is expected: missing, of another type,
\* or a string of characters
Undefined == [type |-> "undefined", chars |-> <<>>]
NotAString == [type |-> "number", chars |-> <<>>]
Str(cs) == [type |-> "string", chars |-> cs]
TranscriptSamples ==
    {Undefined, NotAString, Str(<<>>), Str(<<" ">>), Str(<<"x">>)}
QuestionCountSamples == {"undefined", "number"}

\* the text of a request body: no bytes ("empty"), not JSON ("invalid"),
\* the JSON value null, a falsy JSON value (0, false, ""), another value
\* that is no object with fields ("truthy": a number, true, an array), or
\* an object with the fields transcript and questionCount
RawBody(kind, transcript, questionCount) ==
    [kind |-> kind, transcript |-> transcript, questionCount |-> questionCount]
EmptyObject == RawBody("object", Undefined, "undefined")
RawBodies ==
    {RawBody(k, Undefined, "undefined") :
        k \in {"empty", "invalid", "null", "falsy", "truthy"}}
    \cup {RawBody("object", tr, qc) :
            tr \in TranscriptSamples, qc \in QuestionCountSamples}

\* edge handler: request.json(), {} when it throws
parseRequestBody(raw) ==
    IF raw.kind \in {"empty", "invalid"} THEN EmptyObject ELSE raw

\* node handler: req.body is what the platform hands over, the text of the
\* body (delivery "raw") or the value parsed from it (delivery "parsed")
parseBody(delivery, raw) ==
    IF \/ delivery = "parsed" /\ raw.kind \in {"empty", "null", "falsy"}
       \/ delivery = "raw" /\ raw.kind = "empty"
    THEN EmptyObject
    ELSE IF delivery = "raw" /\ raw.kind = "invalid" THEN EmptyObject
    ELSE raw

\* development server: the chunks of the request, {} when there is none or
\* JSON.parse throws
readJsonBody(raw) ==
    IF raw.kind = "empty" THEN EmptyObject
    ELSE IF raw.kind = "invalid" THEN EmptyObject
    ELSE raw

ParsedBody(i, delivery, raw) ==
    CASE i = "edge" -> parseRequestBody(raw)
      [] i = "node" -> parseBody(delivery, raw)
      [] i = "dev" -> readJsonBody(raw)

\* const { transcript, questionCount } = body throws a TypeError on null
Destructurable(body) == body.kind # "null"

\* ------------------------------------- question generation: the validator
\* an item of the array the model answers with, as JSON: null, a value that
\* is no object, or an object with the three fields of a question
\* (correct_answer is a number given as twice its value, so that 2.5 is 5)
Options(type, len, strings) == [type |-> type, len |-> len, strings |-> strings]
Answer(type, twice) == [type |-> type, twice |-> twice]
Item(kind, text, options, answer) ==
    [kind |-> kind, question_text |-> text, options |-> options,
     correct_answer |-> answer]
FourStrings == Options("array", 4, TRUE)
GoodItem == Item("object", Str(<<"q">>), FourStrings, Answer("number", 2))
ItemSamples ==
    { GoodItem,
      Item("object", Str(<<"r", " ">>), FourStrings, Answer("number", 8)),
      Item("object", Str(<<"q">>), FourStrings, Answer("number", 5)),
      Item("null", Undefined, Options("undefined", 0, TRUE), Answer("undefined", 0)),
      Item("scalar", Undefined, Options("undefined", 0, TRUE), Answer("undefined", 0)),
      Item("object", Str(<<" ">>), FourStrings, Answer("number", 2)),
      Item("object", Str(<<>>), FourStrings, Answer("number", 2)),
      Item("object", NotAString, FourStrings, Answer("number", 2)),
      Item("object", Str(<<"q">>), Options("array", 3, TRUE), Answer("number", 2)),
      Item("object", Str(<<"q">>), Options("array", 4, FALSE), Answer("number", 2)),
      Item("object", Str(<<"q">>), FourStrings, Answer("number", 10)),
      Item("object", Str(<<"q">>), FourStrings, Answer("string", 4)) }

hasQuestion(q) ==
    /\ q.kind = "object"
    /\ q.question_text.type = "string"
    /\ Len(Trim(q.question_text.chars)) > 0

hasOptions(q) ==
    /\ q.kind = "object"
    /\ q.options.type = "array"
    /\ q.options.len = NumOptions
    /\ q.options.strings

hasAnswer(q) ==
    /\ q.kind = "object"
    /\ q.correct_answer.type = "number"
    /\ q.correct_answer.twice >= 2 * 1
    /\ q.correct_answer.twice <= 2 * NumOptions

\* variant: the question text is not trimmed before its length is taken
sanitizedQuestionsUntrimmed(generatedQuestions) ==
    SelectSeq(generatedQuestions,
              LAMBDA q : /\ q.kind = "object"
                         /\ q.question_text.type = "string"
                         /\ Len(q.question_text.chars) > 0
                         /\ hasOptions(q) /\ hasAnswer(q))

\* generatedQuestions.filter(...)
RECURSIVE sanitizedQuestions(_)
sanitizedQuestions(generatedQuestions) ==
    IF generatedQuestions = <<>> THEN <<>>
    ELSE LET q == Head(generatedQuestions)
         IN (IF hasQuestion(q) /\ hasOptions(q) /\ hasAnswer(q) THEN <<q>> ELSE <<>>)
            \o sanitizedQuestions(Tail(generatedQuestions))

\* what generateContent does: it rejects (with or without a message), or it
\* answers with no text, with text that is not JSON, with JSON that is no
\* array, or with an array of items
Reply(kind, msg, items) == [kind |-> kind, message |-> msg, items |-> items]
NoReply == Reply("none", "none", <<>>)
Replies ==
    {Reply("throws", m, <<>>) : m \in {"sdk", "none"}}
    \cup {Reply(k, "none", <<>>) : k \in {"noText", "notJson", "notArray"}}
    \cup {Reply("array", "none", items) : items \in SeqsUpTo(ItemSamples, MaxItems)}

\* the outcome of generateQuizQuestions: the questions, or the thrown error
Thrown(msg) == [ok |-> FALSE, error |-> msg, questions |-> <<>>]
Returned(questions) == [ok |-> TRUE, error |-> "none", questions |-> questions]

\* variant: an empty result of the filter is returned like any other
generateQuizQuestionsEmptyAllowed(apiKey, transcript, reply) ==
    IF ~apiKey THEN Thrown("noApiKey")
    ELSE IF Trim(transcript.chars) = <<>> THEN Thrown("noTranscript")
    ELSE IF reply.kind = "throws" THEN Thrown(reply.message)
    ELSE IF reply.kind = "noText" THEN Thrown("noArray")
    ELSE IF reply.kind = "notJson" THEN Thrown("syntaxError")
    ELSE IF reply.kind = "notArray" THEN Thrown("noArray")
    ELSE Returned(sanitizedQuestions(reply.items))

generateQuizQuestions(apiKey, transcript, reply) ==
    IF ~apiKey THEN Thrown("noApiKey")
    ELSE IF Trim(transcript.chars) = <<>> THEN Thrown("noTranscript")
    ELSE IF reply.kind = "throws" THEN Thrown(reply.message)
    ELSE IF reply.kind = "noText" THEN Thrown("noArray")
    ELSE IF reply.kind = "notJson" THEN Thrown("syntaxError")
    ELSE IF reply.kind = "notArray" THEN Thrown("noArray")
    ELSE LET sanitized == sanitizedQuestions(reply.items)
         IN IF Len(sanitized) = 0 THEN Thrown("noValidQuestions")
            ELSE Returned(sanitized)

\* ------------------------------------- question generation: the endpoint
\* sendJson: the status and the payload, one of {ready}, {error}, {questions}
sendJson(status, kind, ready, error, questions) ==
    [status |-> status, kind |-> kind, ready |-> ready, error |-> error,
     questions |-> questions]
NoResponse == sendJson(0, "none", FALSE, "none", <<>>)
ReadyResponse(ready) == sendJson(200, "ready", ready, "none", <<>>)
ErrorResponse(status, error) == sendJson(status, "error", FALSE, error, <<>>)
QuestionsResponse(questions) == sendJson(200, "questions", FALSE, "none", questions)

\* error?.message ?? "クイズの生成に失敗しました。"
ErrorMessage(msg) == IF msg = "none" THEN "generationFailed" ELSE msg

ImplIdle ==
    [pc |-> "idle", delivery |-> "raw", transcript |-> Undefined,
     called |-> FALSE, response |-> NoResponse]
GenIdle ==
    [method |-> "GET", apiKey |-> FALSE, body |-> RawBody("empty", Undefined, "undefined"),
     reply |-> NoReply, impl |-> [i \in Impls |-> ImplIdle]]

\* ------------------------------------- projects and their questions
\* the rows of table projects: the project the respondents take and a second
\* one; the rows of table questions carry the project they belong to
InitialProjects == {[id |-> p, name |-> "n0"] : p \in ProjectIds}
InitialQuestions ==
    [i \in DOMAIN Questions |-> [project_id |-> ProjectId, question |-> Questions[i].id]]
    \o << [project_id |-> ProjectId + 1, question |-> "qb"] >>

\* the question lists and the project data a caller passes
QuestionLists == {<<>>, <<"qa">>, <<"qb", "qa">>}
ProjectData(hasBase, hasQuestions, questions) ==
    [hasBase |-> hasBase, name |-> "n1", hasQuestions |-> hasQuestions,
     questions |-> questions]
ProjectDataSamples ==
    {ProjectData(b, TRUE, qs) : b \in BOOLEAN, qs \in QuestionLists}
    \cup {ProjectData(b, FALSE, <<>>) : b \in BOOLEAN}
\* the name typed for a new or a renamed user
NewUserNames == {<<"b">>}

\* select('*, questions(*)'): a project with its questions nested
QuestionsOfProject(rows, id) ==
    LET mine == SelectSeq(rows, LAMBDA r : r.project_id = id)
    IN [i \in DOMAIN mine |-> mine[i].question]
mapProjectFromDb(row) ==
    [id |-> row.id, name |-> row.name,
     questions |-> QuestionsOfProject(dbQuestions, row.id)]
getProjects == {mapProjectFromDb(row) : row \in dbProjects}

\* questions.map(q => ({...q, project_id: id}))
questionsToInsert(questions, id) ==
    [i \in DOMAIN questions |-> [project_id |-> id, question |-> questions[i]]]

\* the steps of supabaseService.updateProject a call goes through
UpdateProjectAfterDelete(data) ==
    IF Len(data.questions) > 0 THEN "insertQuestions" ELSE "fetch"
UpdateProjectAfterBase(data) ==
    IF data.hasQuestions THEN "deleteQuestions" ELSE "fetch"
UpdateProjectFirst(data) ==
    IF data.hasBase THEN "updateBase" ELSE UpdateProjectAfterBase(data)

\* no operation in flight; result is how the last call ended
OpIdle ==
    [name |-> "none", pc |-> "idle", id |-> Null, userName |-> <<>>,
     data |-> ProjectData(FALSE, FALSE, <<>>), result |-> "none",
     calls |-> 0]
OpStarted(name, pc) ==
    [OpIdle EXCEPT !.name = name, !.pc = pc, !.calls = op.calls + 1]
OpEnded(result) == [OpIdle EXCEPT !.result = result, !.calls = op.calls]

\* AppProvider when it is mounted: checkApiStatus has called fetchGeminiStatus
ProviderInit == [isMounted |-> TRUE, status |-> "pending", isGeminiConfigured |-> FALSE]

\* the call of the second session: its question list; not started
PeerQuestions == <<"qb">>
PeerIdle == [pc |-> "idle", id |-> Null, questions |-> <<>>]

\* -------------------------------------------------------------------- Init
\* ------------------------------------------------- QuizTaker on its own
\* the question lists of a project: up to MaxQuestions questions, each with
\* one of two options as the correct one; the ids of the questions of one
\* project are not those of another
CorrectAnswers == {1, 2}
QuestionIdsOf(project) ==
    {(project - 1) * MaxQuestions + i : i \in 1..MaxQuestions}
QuestionListSamples(project) ==
    UNION { { [i \in 1..n |-> [id |-> (project - 1) * MaxQuestions + i,
                               correct_answer |-> f[i]]] :
                f \in [1..n -> CorrectAnswers] } : n \in 0..MaxQuestions }

\* the component as it is mounted; onGrade counts the calls of the prop,
\* onSubmit is the promise of the last call of the prop by this instance,
\* alerted whether alert() was shown; mount numbers the instances QuizFlow
\* has rendered and requests holds the instances whose call of onSubmit is
\* not settled yet
QuizTakerInit(questions) ==
    [questions |-> questions, answers |-> <<>>, showResult |-> FALSE, score |-> 0,
     isSubmitting |-> FALSE, onGrade |-> 0, onSubmit |-> "none", alerted |-> FALSE,
     replaced |-> FALSE, mount |-> 0, requests |-> {}]

\* the footer: which button is rendered and whether it is enabled
QtGradeEnabled ==
    /\ Len(qt.questions) # 0
    /\ ~qt.showResult
    /\ AllAnswered(qt.answers, qt.questions)
QtSubmitEnabled ==
    /\ Len(qt.questions) # 0
    /\ qt.showResult
    /\ PerfectScore(qt.score, qt.questions)
    /\ ~qt.isSubmitting
QtRetryShown ==
    /\ Len(qt.questions) # 0
    /\ qt.showResult
    /\ ~PerfectScore(qt.score, qt.questions)

QtUnchanged ==
    UNCHANGED <<dbVars, projectVars, app, pageVars, adminVars, gen, op, peer, lateVars>>

\* a radio input of a rendered question is clicked
QtHandleAnswer(questionId, answerIndex) ==
    /\ \E i \in DOMAIN qt.questions : qt.questions[i].id = questionId
    /\ ~qt.showResult
    /\ qt' = [qt EXCEPT !.answers =
                 [q \in DOMAIN qt.answers \cup {questionId} |->
                     IF q = questionId THEN answerIndex ELSE qt.answers[q]]]
    /\ QtUnchanged

QtGradeQuiz ==
    /\ QtGradeEnabled
    /\ qt.onGrade < MaxGrades
    /\ qt' = [qt EXCEPT
                 !.score = CountCorrect(qt.questions, qt.answers, Len(qt.questions)),
                 !.showResult = TRUE,
                 !.onGrade = @ + 1]
    /\ QtUnchanged

QtTryAgain ==
    /\ QtRetryShown
    /\ qt' = [qt EXCEPT !.answers = <<>>, !.showResult = FALSE, !.score = 0]
    /\ QtUnchanged

QtHandleFinalSubmit ==
    /\ QtSubmitEnabled
    /\ qt' = [qt EXCEPT !.isSubmitting = TRUE, !.onSubmit = "pending",
                         !.requests = @ \cup {qt.mount}]
    /\ QtUnchanged

\* onSubmit of instance m resolves: handleFinalSubmit does nothing more
\* (QuizFlow has set the page to complete, no QuizTaker is rendered any more)
QtSubmitResolved(m) ==
    /\ m \in qt.requests
    /\ qt' = [qt EXCEPT !.onSubmit = "resolved", !.requests = @ \ {m}]
    /\ QtUnchanged

\* onSubmit of instance m rejects: the catch block; setIsSubmitting acts on
\* the instance that called, an unmounted one is left alone
QtSubmitRejected(m) ==
    /\ m \in qt.requests
    /\ qt.onSubmit # "resolved"
    /\ qt' = [qt EXCEPT !.requests = @ \ {m},
                         !.alerted = TRUE,
                         !.onSubmit = IF m = qt.mount THEN "none" ELSE @,
                         !.isSubmitting = IF m = qt.mount THEN FALSE ELSE @]
    /\ QtUnchanged

\* QuizFlow.setProject while the QuizTaker is rendered: a fetch of the page
\* is answered late (FetchProjectOK with the page in taking), QuizFlow
\* renders the same QuizTaker with the questions of the other project, and
\* the component keeps its state (followed once)
QtProjectReplaced(questions) ==
    /\ ~qt.replaced
    /\ qt.onSubmit # "resolved"
    /\ qt' = [qt EXCEPT !.questions = questions, !.replaced = TRUE]
    /\ QtUnchanged

\* the route id changes while the page is in taking: QuizFlow sets isLoading
\* and renders the loading text, and when the fetch is answered it renders a
\* QuizTaker again, a new instance with the initial state; a call of onSubmit
\* by the instance before goes on (route changed and changed back, followed
\* once)
QtRemounted ==
    /\ qt.mount = 0
    /\ qt.onSubmit # "resolved"
    /\ qt' = [QuizTakerInit(qt.questions) EXCEPT
                 !.onGrade = qt.onGrade, !.alerted = qt.alerted,
                 !.replaced = qt.replaced, !.requests = qt.requests,
                 !.mount = qt.mount + 1]
    /\ QtUnchanged

QtStep ==
    \/ \E questionId \in QuestionIdsOf(ProjectId) \cup QuestionIdsOf(ProjectId + 1),
          answerIndex \in CorrectAnswers :
         QtHandleAnswer(questionId, answerIndex)
    \/ \E questions \in QuestionListSamples(ProjectId + 1) : QtProjectReplaced(questions)
    \/ QtGradeQuiz
    \/ QtTryAgain
    \/ QtHandleFinalSubmit
    \/ \E m \in qt.requests : QtSubmitResolved(m)
    \/ \E m \in qt.requests : QtSubmitRejected(m)
    \/ QtRemounted

\* AppProvider after its mount effects: with a client the first load is under
\* way; without one (no VITE_SUPABASE_URL or VITE_SUPABASE_KEY, or createClient
\* threw and error was set) isLoading was set to false
AppInit(configured, error) ==
    [supabaseClient |-> configured, isLoading |-> configured,
     error |-> IF configured THEN "none" ELSE error,
     users |-> {}, projects |-> {}, submissions |-> <<>>, attempts |-> <<>>]

\* what every start has in common: the tables, the pages, nothing in flight
InitRest ==
    /\ dbUsers = InitialUsers
    /\ dbSubs = <<>>
    /\ dbAtts = <<>>
    /\ nextUserId = 2
    /\ quiz = [t \in Tabs |->
                [projectId |-> ProjectId, project |-> Null, isLoading |-> TRUE,
                 pageState |-> "start", currentUserId |-> Null, isGuest |-> FALSE]]
    /\ taker = [t \in Tabs |-> TakerInit]
    /\ net = [t \in Tabs |-> [attempts |-> <<>>, submit |-> "idle", count |-> 0]]
    /\ alerted = [t \in Tabs |-> FALSE]
    /\ graded = [u \in UserIds |-> 0]
    /\ gradedSince = [t \in Tabs |-> FALSE]
    /\ message = NoMessage
    /\ del = DelIdle
    /\ rep = RepIdle
    /\ gen = GenIdle
    /\ dbProjects = InitialProjects
    /\ dbQuestions = InitialQuestions
    /\ nextProjectId = ProjectId + 2
    /\ op = OpIdle
    /\ peer = PeerIdle
    /\ fetches = [t \in Tabs |-> {ProjectId}]
    /\ provider = [s \in Sessions |-> ProviderInit]

\* every session is configured
Init ==
    /\ app = [s \in Sessions |-> AppInit(TRUE, "none")]
    /\ InitRest
    /\ qt = QuizTakerInit(Questions)

\* a QuizTaker is mounted with one of the question lists
InitTaker ==
    /\ app = [s \in Sessions |-> AppInit(TRUE, "none")]
    /\ InitRest
    /\ \E questions \in QuestionListSamples(ProjectId) : qt = QuizTakerInit(questions)

\* one configured session, the administrator's or a respondent's, next to
\* sessions of a build without configuration; or no configured session
InitStore ==
    /\ \/ \E on \in {Admin, "t1"} :
             app = [s \in Sessions |-> AppInit(s = on, "none")]
       \/ \E error \in {"none", "badConfig"} :
             app = [s \in Sessions |-> AppInit(FALSE, error)]
    /\ InitRest
    /\ qt = QuizTakerInit(Questions)

\* ------------------------------------------------- AppProvider: first load
\* loadInitialData, all four reads answered
LoadInitialDataOK(t) ==
    /\ app[t].supabaseClient
    /\ app[t].isLoading
    /\ app' = [app EXCEPT ![t] =
                 [supabaseClient |-> TRUE, isLoading |-> FALSE, error |-> "none",
                  users |-> dbUsers, projects |-> getProjects,
                  submissions |-> dbSubs, attempts |-> dbAtts]]
    /\ UNCHANGED <<dbVars, quiz, taker, net, alerted, graded, gradedSince, adminVars>>
    /\ UNCHANGED otherVars

\* variant: the reads are awaited one after the other, and the users read
\* is taken over before another read is rejected
LoadInitialDataFailAfterUsers(t) ==
    /\ app[t].supabaseClient
    /\ app[t].isLoading
    /\ app' = [app EXCEPT ![t].isLoading = FALSE, ![t].error = "store",
                          ![t].users = dbUsers]
    /\ UNCHANGED <<dbVars, quiz, taker, net, alerted, graded, gradedSince, adminVars>>
    /\ UNCHANGED otherVars

\* loadInitialData, one of the reads rejected
LoadInitialDataFail(t) ==
    /\ app[t].supabaseClient
    /\ app[t].isLoading
    /\ app' = [app EXCEPT ![t].isLoading = FALSE, ![t].error = "store"]
    /\ UNCHANGED <<dbVars, quiz, taker, net, alerted, graded, gradedSince, adminVars>>
    /\ UNCHANGED otherVars

\* ------------------------------------------------- QuizFlow: project fetch
\* the fetch of the page's useEffect: fetches holds the ids asked for and not
\* answered yet, from the start the id of the fetch the page makes when it is
\* mounted. A fetch is answered with a published project: setProject, then
\* setIsLoading(false); nothing in the effect looks at the id the page has
\* by then
FetchProjectOK(t) ==
    /\ Rendered(t) = "children"
    /\ \E p \in fetches[t] :
         /\ quiz' = [quiz EXCEPT ![t] =
                       HasSubmittedEffect([quiz[t] EXCEPT !.project = p,
                                                          !.isLoading = FALSE],
                                          app[t].submissions)]
         /\ fetches' = [fetches EXCEPT ![t] = @ \ {p}]
    /\ UNCHANGED <<dbVars, app, taker, net, alerted, graded, gradedSince, adminVars>>
    /\ UNCHANGED <<gen, projectVars, op, peer, provider, qt>>

\* the fetch fails, finds nothing or finds an unpublished project
FetchProjectUnavailable(t) ==
    /\ Rendered(t) = "children"
    /\ \E p \in fetches[t] :
         /\ quiz' = [quiz EXCEPT ![t].isLoading = FALSE]
         /\ fetches' = [fetches EXCEPT ![t] = @ \ {p}]
    /\ UNCHANGED <<dbVars, app, taker, net, alerted, graded, gradedSince, adminVars>>
    /\ UNCHANGED <<gen, projectVars, op, peer, provider, qt>>

\* the route parameter :id of an open quiz page changes (a link or an edited
\* address): the same QuizFlow is rendered again, the effect on [projectId]
\* sets isLoading and fetches the project, whether or not an earlier fetch is
\* still in flight; QuizStart and QuizTaker are not rendered while it loads,
\* so their state is dropped
\* (followed for pages with no submission in flight; two fetches of one id
\* in flight are followed as one)
ProjectIdChanges(t, p) ==
    /\ Rendered(t) = "children"
    /\ net[t].submit = "idle"
    /\ p # quiz[t].projectId
    /\ quiz' = [quiz EXCEPT ![t].projectId = p, ![t].isLoading = TRUE]
    /\ fetches' = [fetches EXCEPT ![t] = @ \cup {p}]
    /\ taker' = [taker EXCEPT ![t] = TakerInit]
    /\ gradedSince' = [gradedSince EXCEPT ![t] = FALSE]
    /\ UNCHANGED <<dbVars, app, net, alerted, graded, adminVars>>
    /\ UNCHANGED <<gen, projectVars, op, peer, provider, qt>>

\* ------------------------------------------------- unmounting
\* the tab is closed or leaves the application: AppProvider and the quiz
\* page are unmounted, the cleanup of the status effect sets isMounted false
\* (followed for tabs with no store call in flight)
Unmount(t) ==
    /\ Rendered(t) = "children"
    /\ net[t].submit = "idle" /\ net[t].attempts = <<>>
    /\ provider' = [provider EXCEPT ![t].isMounted = FALSE]
    /\ UNCHANGED <<dbVars, app, pageVars, adminVars, gen, projectVars, op, peer, fetches, qt>>

\* a fetch is answered after the page was unmounted: the state setters of an
\* unmounted component change nothing
FetchProjectLate(t) ==
    /\ ~provider[t].isMounted
    /\ \E p \in fetches[t] : fetches' = [fetches EXCEPT ![t] = @ \ {p}]
    /\ UNCHANGED <<dbVars, app, pageVars, adminVars, gen, projectVars, op, peer, provider, qt>>

\* checkApiStatus: fetchGeminiStatus is answered; the flag is set only if
\* the provider is still mounted
checkApiStatus(t, ready) ==
    /\ provider[t].status = "pending"
    /\ provider' = [provider EXCEPT
                      ![t].status = "done",
                      ![t].isGeminiConfigured = IF provider[t].isMounted THEN ready ELSE @]
    /\ UNCHANGED <<dbVars, app, pageVars, adminVars, gen, projectVars, op, peer, fetches, qt>>

\* ------------------------------------------------- QuizFlow: start page
\* variant: the list offers every user of the roster
handleStartQuizUnfiltered(t, userId) ==
    /\ PageShown(t)
    /\ quiz[t].pageState = "start"
    /\ \E u \in app[t].users : u.id = userId
    /\ quiz' = [quiz EXCEPT ![t] =
                 HasSubmittedEffect([quiz[t] EXCEPT !.isGuest = FALSE,
                                                    !.currentUserId = userId,
                                                    !.pageState = "taking"],
                                    app[t].submissions)]
    /\ taker' = [taker EXCEPT ![t] = TakerInit]
    /\ gradedSince' = [gradedSince EXCEPT ![t] = FALSE]
    /\ UNCHANGED <<dbVars, app, net, alerted, graded, adminVars>>
    /\ UNCHANGED otherVars

\* variant: setIsGuest(false) is left out
handleStartQuizKeepsGuest(t, userId) ==
    /\ PageShown(t)
    /\ quiz[t].pageState = "start"
    /\ \E u \in availableUsers(t) : u.id = userId
    /\ quiz' = [quiz EXCEPT ![t] =
                 HasSubmittedEffect([quiz[t] EXCEPT !.currentUserId = userId,
                                                    !.pageState = "taking"],
                                    app[t].submissions)]
    /\ taker' = [taker EXCEPT ![t] = TakerInit]
    /\ gradedSince' = [gradedSince EXCEPT ![t] = FALSE]
    /\ UNCHANGED <<dbVars, app, net, alerted, graded, adminVars>>
    /\ UNCHANGED otherVars

handleStartQuiz(t, userId) ==
    /\ PageShown(t)
    /\ quiz[t].pageState = "start"
    /\ \E u \in availableUsers(t) : u.id = userId
    /\ quiz' = [quiz EXCEPT ![t] =
                 HasSubmittedEffect([quiz[t] EXCEPT !.isGuest = FALSE,
                                                    !.currentUserId = userId,
                                                    !.pageState = "taking"],
                                    app[t].submissions)]
    /\ taker' = [taker EXCEPT ![t] = TakerInit]
    /\ gradedSince' = [gradedSince EXCEPT ![t] = FALSE]
    /\ UNCHANGED <<dbVars, app, net, alerted, graded, adminVars>>
    /\ UNCHANGED otherVars

\* variant: the guest button is rendered whatever the page state is
handleStartGuestAnywhere(t) ==
    /\ PageShown(t)
    /\ quiz' = [quiz EXCEPT ![t] =
                 HasSubmittedEffect([quiz[t] EXCEPT !.isGuest = TRUE,
                                                    !.currentUserId = Null,
                                                    !.pageState = "taking"],
                                    app[t].submissions)]
    /\ taker' = [taker EXCEPT ![t] = TakerInit]
    /\ gradedSince' = [gradedSince EXCEPT ![t] = FALSE]
    /\ UNCHANGED <<dbVars, app, net, alerted, graded, adminVars>>
    /\ UNCHANGED otherVars

handleStartGuest(t) ==
    /\ PageShown(t)
    /\ quiz[t].pageState = "start"
    /\ quiz' = [quiz EXCEPT ![t] =
                 HasSubmittedEffect([quiz[t] EXCEPT !.isGuest = TRUE,
                                                    !.currentUserId = Null,
                                                    !.pageState = "taking"],
                                    app[t].submissions)]
    /\ taker' = [taker EXCEPT ![t] = TakerInit]
    /\ gradedSince' = [gradedSince EXCEPT ![t] = FALSE]
    /\ UNCHANGED <<dbVars, app, net, alerted, graded, adminVars>>
    /\ UNCHANGED otherVars

\* variant: the return button is rendered for every respondent
onRetryForAll(t) ==
    /\ PageShown(t)
    /\ quiz[t].pageState = "complete"
    /\ quiz' = [quiz EXCEPT ![t].pageState = "start"]
    /\ UNCHANGED <<dbVars, app, taker, net, alerted, graded, gradedSince, adminVars>>
    /\ UNCHANGED otherVars

\* QuizComplete: the return button is rendered for guests only
onRetry(t) ==
    /\ PageShown(t)
    /\ quiz[t].pageState = "complete"
    /\ quiz[t].isGuest
    /\ quiz' = [quiz EXCEPT ![t].pageState = "start"]
    /\ UNCHANGED <<dbVars, app, taker, net, alerted, graded, gradedSince, adminVars>>
    /\ UNCHANGED otherVars

\* variant: the radio inputs stay enabled while the result is shown
handleAnswerAfterGrading(t, questionId, answerIndex) ==
    /\ PageShown(t)
    /\ quiz[t].pageState = "taking"
    /\ taker' = [taker EXCEPT ![t].answers =
                   [q \in DOMAIN taker[t].answers \cup {questionId} |->
                       IF q = questionId THEN answerIndex
                       ELSE taker[t].answers[q]]]
    /\ UNCHANGED <<dbVars, app, quiz, net, alerted, graded, gradedSince, adminVars>>
    /\ UNCHANGED otherVars

\* ------------------------------------------------- QuizTaker: answering
handleAnswer(t, questionId, answerIndex) ==
    /\ PageShown(t)
    /\ quiz[t].pageState = "taking"
    /\ ~taker[t].showResult
    /\ taker' = [taker EXCEPT ![t].answers =
                   [q \in DOMAIN taker[t].answers \cup {questionId} |->
                       IF q = questionId THEN answerIndex
                       ELSE taker[t].answers[q]]]
    /\ UNCHANGED <<dbVars, app, quiz, net, alerted, graded, gradedSince, adminVars>>
    /\ UNCHANGED otherVars

\* variant: no early return for guests and no check of the selected user
handleGradeForGuests(t, score) ==
    IF quiz[t].project # Null
    THEN << [projectId |-> quiz[t].project,
             userId |-> quiz[t].currentUserId, score |-> score] >>
    ELSE <<>>

\* QuizFlow.handleGrade up to its await: the attempt insert it starts
handleGrade(t, score) ==
    IF quiz[t].isGuest THEN <<>>
    ELSE IF quiz[t].project # Null /\ quiz[t].currentUserId # Null
         THEN << [projectId |-> quiz[t].project,
                  userId |-> quiz[t].currentUserId, score |-> score] >>
         ELSE <<>>

\* the grade button: gradeQuiz, which calls onGrade and does not wait for it
gradeQuiz(t) ==
    /\ PageShown(t)
    /\ GradeButtonShown(t)
    /\ isAllAnswered(taker[t])
    /\ quiz[t].isGuest \/ TotalGraded < MaxGrades
    /\ LET correctCount == CorrectCount(taker[t].answers, Len(Questions))
           started == handleGrade(t, correctCount)
       IN /\ taker' = [taker EXCEPT ![t].score = correctCount,
                                    ![t].showResult = TRUE]
          /\ net' = [net EXCEPT ![t].attempts = @ \o started]
          /\ graded' = IF started = <<>> THEN graded
                       ELSE [graded EXCEPT ![started[1].userId] = @ + 1]
    /\ gradedSince' = [gradedSince EXCEPT ![t] = TRUE]
    /\ UNCHANGED <<dbVars, app, quiz, alerted, adminVars>>
    /\ UNCHANGED otherVars

tryAgain(t) ==
    /\ PageShown(t)
    /\ RetryButtonShown(t)
    /\ taker' = [taker EXCEPT ![t].answers = <<>>,
                              ![t].showResult = FALSE,
                              ![t].score = 0]
    /\ gradedSince' = [gradedSince EXCEPT ![t] = FALSE]
    /\ UNCHANGED <<dbVars, app, quiz, net, alerted, graded, adminVars>>
    /\ UNCHANGED otherVars

\* AppContext.addAttempt: the insert is answered, the mirror follows
AddAttemptOK(t, i) ==
    /\ i \in DOMAIN net[t].attempts
    /\ dbAtts' = Append(dbAtts, net[t].attempts[i])
    /\ app' = [app EXCEPT ![t].attempts = Append(@, net[t].attempts[i])]
    /\ net' = [net EXCEPT ![t].attempts = RemoveAt(@, i)]
    /\ UNCHANGED <<dbUsers, dbSubs, nextUserId, quiz, taker, alerted, graded, gradedSince, adminVars>>
    /\ UNCHANGED otherVars

\* AppContext.addAttempt: the insert is rejected; performAction sets error and
\* rethrows, nobody catches the rejection of handleGrade
AddAttemptFail(t, i) ==
    /\ i \in DOMAIN net[t].attempts
    /\ app' = [app EXCEPT ![t].error = "store"]
    /\ net' = [net EXCEPT ![t].attempts = RemoveAt(@, i)]
    /\ UNCHANGED <<dbVars, quiz, taker, alerted, graded, gradedSince, adminVars>>
    /\ UNCHANGED otherVars

\* ------------------------------------------------- submit
\* handleFinalSubmit of a guest: handleSubmit only sets the page state
handleSubmitGuest(t) ==
    /\ PageShown(t)
    /\ SubmitButtonShown(t)
    /\ ~taker[t].isSubmitting
    /\ quiz[t].isGuest
    /\ quiz' = [quiz EXCEPT ![t].pageState = "complete"]
    /\ taker' = [taker EXCEPT ![t] = TakerInit]
    /\ UNCHANGED <<dbVars, app, net, alerted, graded, gradedSince, adminVars>>
    /\ UNCHANGED otherVars

\* handleFinalSubmit of a registered respondent up to the first await of
\* handleSubmit: the attempt-count query is started
handleFinalSubmit(t) ==
    /\ PageShown(t)
    /\ SubmitButtonShown(t)
    /\ ~taker[t].isSubmitting
    /\ ~quiz[t].isGuest
    /\ quiz[t].currentUserId # Null
    /\ taker' = [taker EXCEPT ![t].isSubmitting = TRUE]
    /\ net' = [net EXCEPT ![t].submit = "count"]
    /\ UNCHANGED <<dbVars, app, quiz, alerted, graded, gradedSince, adminVars>>
    /\ UNCHANGED otherVars

\* the count query is answered; addSubmission starts the insert
SubmitCountOK(t) ==
    /\ net[t].submit = "count"
    /\ net' = [net EXCEPT
                 ![t].submit = "insert",
                 ![t].count = Cardinality(RowsFor(dbAtts, quiz[t].project,
                                                  quiz[t].currentUserId))]
    /\ UNCHANGED <<dbVars, app, quiz, taker, alerted, graded, gradedSince, adminVars>>
    /\ UNCHANGED otherVars

\* variant: the catch block forgets setIsSubmitting(false)
SubmitFailedStaysSubmitting(t) ==
    /\ alerted' = [alerted EXCEPT ![t] = TRUE]
    /\ taker' = taker
    /\ net' = [net EXCEPT ![t].submit = "idle", ![t].count = 0]

\* the catch block of handleFinalSubmit
SubmitFailed(t) ==
    /\ alerted' = [alerted EXCEPT ![t] = TRUE]
    /\ taker' = [taker EXCEPT ![t].isSubmitting = FALSE]
    /\ net' = [net EXCEPT ![t].submit = "idle", ![t].count = 0]

\* the count query is rejected: handleSubmit throws
SubmitCountFail(t) ==
    /\ net[t].submit = "count"
    /\ SubmitFailed(t)
    /\ UNCHANGED <<dbVars, app, quiz, graded, gradedSince, adminVars>>
    /\ UNCHANGED otherVars

\* the insert is answered: mirror, effect and setPageState('complete')
AddSubmissionOK(t) ==
    /\ net[t].submit = "insert"
    /\ LET newSubmission == [projectId |-> quiz[t].project,
                             userId |-> quiz[t].currentUserId,
                             attempt_count |-> net[t].count]
           subs == Append(app[t].submissions, newSubmission)
       IN /\ dbSubs' = Append(dbSubs, newSubmission)
          /\ app' = [app EXCEPT ![t].submissions = subs]
          /\ quiz' = [quiz EXCEPT ![t] =
                        [HasSubmittedEffect(quiz[t], subs)
                            EXCEPT !.pageState = "complete"]]
    /\ taker' = [taker EXCEPT ![t] = TakerInit]
    /\ net' = [net EXCEPT ![t].submit = "idle", ![t].count = 0]
    /\ UNCHANGED <<dbUsers, dbAtts, nextUserId, alerted, graded, gradedSince, adminVars>>
    /\ UNCHANGED otherVars

\* the insert is rejected: performAction sets error and rethrows
AddSubmissionFail(t) ==
    /\ net[t].submit = "insert"
    /\ app' = [app EXCEPT ![t].error = "store"]
    /\ SubmitFailed(t)
    /\ UNCHANGED <<dbVars, quiz, graded, gradedSince, adminVars>>
    /\ UNCHANGED otherVars

\* ------------------------------------------------- roster: deleteUser
\* MasterListManager.handleDeleteUser, confirmed: AppContext.deleteUser and
\* supabaseService.deleteUser up to the query for the user's submissions
handleDeleteUser(id) ==
    /\ Rendered(Admin) = "children"
    /\ del.pc = "idle"
    /\ rep.pc = "idle"
    /\ op.pc = "idle"
    /\ \E u \in app[Admin].users : u.id = id
    /\ del' = [pc |-> "check", id |-> id]
    /\ UNCHANGED <<dbVars, app, quiz, taker, net, alerted, graded, gradedSince, message, rep>>
    /\ UNCHANGED otherVars

\* deleteUser throws: performAction sets error and rethrows, handleDeleteUser
\* picks the text by the error's message
DeleteUserThrows(err) ==
    /\ app' = [app EXCEPT ![Admin].error = err]
    /\ message' = IF err = "hasSubmissions" THEN Msg("integrity")
                  ELSE Msg("deleteFailed")
    /\ del' = DelIdle

\* variant: the result of the submissions query is not looked at
DeleteUserCheckIgnored ==
    /\ del.pc = "check"
    /\ del' = [del EXCEPT !.pc = "delete"]
    /\ UNCHANGED <<app, message>>
    /\ UNCHANGED <<dbVars, quiz, taker, net, alerted, graded, gradedSince, rep>>
    /\ UNCHANGED otherVars

\* the submissions query is answered
DeleteUserCheck ==
    /\ del.pc = "check"
    /\ IF \E i \in DOMAIN dbSubs : dbSubs[i].userId = del.id
       THEN DeleteUserThrows("hasSubmissions")
       ELSE /\ del' = [del EXCEPT !.pc = "delete"]
            /\ UNCHANGED <<app, message>>
    /\ UNCHANGED <<dbVars, quiz, taker, net, alerted, graded, gradedSince, rep>>
    /\ UNCHANGED otherVars

\* the submissions query is rejected
DeleteUserCheckFail ==
    /\ del.pc = "check"
    /\ DeleteUserThrows("store")
    /\ UNCHANGED <<dbVars, quiz, taker, net, alerted, graded, gradedSince, rep>>
    /\ UNCHANGED otherVars

\* the delete is answered; the mirror follows
DeleteUserDelete ==
    /\ del.pc = "delete"
    /\ dbUsers' = {u \in dbUsers : u.id # del.id}
    /\ app' = [app EXCEPT ![Admin].users = {u \in @ : u.id # del.id}]
    /\ message' = Msg("deleted")
    /\ del' = DelIdle
    /\ UNCHANGED <<dbSubs, dbAtts, nextUserId, quiz, taker, net, alerted, graded, gradedSince, rep>>
    /\ UNCHANGED otherVars

\* the delete is rejected
DeleteUserDeleteFail ==
    /\ del.pc = "delete"
    /\ DeleteUserThrows("store")
    /\ UNCHANGED <<dbVars, quiz, taker, net, alerted, graded, gradedSince, rep>>
    /\ UNCHANGED otherVars

\* ------------------------------------------------- roster: replaceUsers
\* AppContext.replaceUsers and supabaseService.replaceUsers up to the first read
replaceUsers(usersData) ==
    /\ Rendered(Admin) = "children"
    /\ rep.pc = "idle"
    /\ del.pc = "idle"
    /\ op.pc = "idle"
    /\ nextUserId - 1 + Len(usersData) <= MaxUserId
    /\ rep' = [RepIdle EXCEPT !.pc = "fetchUsers", !.usersData = usersData]
    /\ UNCHANGED <<dbVars, app, quiz, taker, net, alerted, graded, gradedSince, message, del>>
    /\ UNCHANGED otherVars

\* select('id, name') is answered
ReplaceFetchUsers ==
    /\ rep.pc = "fetchUsers"
    /\ rep' = [rep EXCEPT !.pc = "fetchSubmissions", !.existingUsers = dbUsers]
    /\ UNCHANGED <<dbVars, app, quiz, taker, net, alerted, graded, gradedSince, message, del>>
    /\ UNCHANGED otherVars

\* where the call goes after the delete step
AfterDelete(r) ==
    IF Len(usersToAdd(r.existingUsers, r.usersData)) > 0 THEN "insert" ELSE "final"

\* select('user_id') is answered; the deletable users are worked out
ReplaceFetchSubmissions ==
    /\ rep.pc = "fetchSubmissions"
    /\ LET submitted == submittedUserIds(dbSubs)
           deletable == deletableUserIds(rep.existingUsers, rep.usersData, submitted)
       IN rep' = [rep EXCEPT
                    !.deletableUserIds = deletable,
                    !.protectedCount =
                        protectedCount(rep.existingUsers, rep.usersData, submitted),
                    !.pc = IF Cardinality(deletable) > 0 THEN "delete"
                           ELSE AfterDelete(rep)]
    /\ UNCHANGED <<dbVars, app, quiz, taker, net, alerted, graded, gradedSince, message, del>>
    /\ UNCHANGED otherVars

\* delete().in('id', deletableUserIds) is answered
ReplaceDelete ==
    /\ rep.pc = "delete"
    /\ dbUsers' = {u \in dbUsers : u.id \notin rep.deletableUserIds}
    /\ rep' = [rep EXCEPT !.deletedCount = Cardinality(rep.deletableUserIds),
                          !.pc = AfterDelete(rep)]
    /\ UNCHANGED <<dbSubs, dbAtts, nextUserId, app, quiz, taker, net, alerted,
                   graded, gradedSince, message, del>>
    /\ UNCHANGED otherVars

\* insert(usersToAdd) is answered: every row gets a fresh id
ReplaceInsert ==
    /\ rep.pc = "insert"
    /\ LET toAdd == usersToAdd(rep.existingUsers, rep.usersData)
       IN /\ dbUsers' = dbUsers \cup
                 {[id |-> nextUserId + i - 1, name |-> toAdd[i].name] :
                     i \in DOMAIN toAdd}
          /\ nextUserId' = nextUserId + Len(toAdd)
    /\ rep' = [rep EXCEPT !.pc = "final"]
    /\ UNCHANGED <<dbSubs, dbAtts, app, quiz, taker, net, alerted, graded, gradedSince,
                   message, del>>
    /\ UNCHANGED otherVars

\* the final select is answered: the mirror is replaced, the message reports
\* the counts
ReplaceFinal ==
    /\ rep.pc = "final"
    /\ app' = [app EXCEPT ![Admin].users = dbUsers]
    /\ message' = [kind |-> "replaced",
                   added |-> Len(usersToAdd(rep.existingUsers, rep.usersData)),
                   deleted |-> rep.deletedCount,
                   protected |-> rep.protectedCount]
    /\ rep' = RepIdle
    /\ UNCHANGED <<dbVars, quiz, taker, net, alerted, graded, gradedSince, del>>
    /\ UNCHANGED otherVars

\* the call in flight is rejected: replaceUsers throws, AppContext sets error,
\* handleFileUpload shows the failure text
ReplaceFail ==
    /\ rep.pc \in {"fetchUsers", "fetchSubmissions", "delete", "insert", "final"}
    /\ app' = [app EXCEPT ![Admin].error = "store"]
    /\ message' = Msg("replaceFailed")
    /\ rep' = RepIdle
    /\ UNCHANGED <<dbVars, quiz, taker, net, alerted, graded, gradedSince, del>>
    /\ UNCHANGED otherVars

\* ------------------------------------- question generation: the endpoint
\* the same request reaches the three implementations, which run under the
\* same configuration (GEMINI_API_KEY set or not)
SendRequest(method, apiKey, body) ==
    /\ \A i \in Impls : gen.impl[i].pc = "idle"
    /\ method = "POST" \/ body.kind = "empty"
    /\ gen' = [gen EXCEPT !.method = method, !.apiKey = apiKey, !.body = body,
                          !.impl = [i \in Impls |-> [ImplIdle EXCEPT !.pc = "received"]]]
    /\ UNCHANGED <<dbVars, projectVars, app, pageVars, adminVars, op, peer, lateVars, qt>>

\* handler, up to the call of generateQuizQuestions
handler(i, delivery) ==
    /\ gen.impl[i].pc = "received"
    /\ delivery = "parsed" => i = "node" /\ gen.body.kind # "invalid"
    /\ LET body == ParsedBody(i, delivery, gen.body)
           respond(r) == gen' = [gen EXCEPT !.impl[i].pc = "done",
                                            !.impl[i].delivery = delivery,
                                            !.impl[i].response = r]
       IN IF gen.method = "GET" THEN respond(ReadyResponse(gen.apiKey))
          ELSE IF gen.method # "POST" THEN respond(ErrorResponse(405, "methodNotAllowed"))
          ELSE IF ~gen.apiKey THEN respond(ErrorResponse(503, "noApiKey"))
          ELSE IF ~Destructurable(body) THEN respond(ErrorResponse(500, "typeError"))
          ELSE IF body.transcript.type # "string" \/ Trim(body.transcript.chars) = <<>>
               THEN respond(ErrorResponse(400, "transcriptRequired"))
          ELSE gen' = [gen EXCEPT !.impl[i].pc = "calling",
                                  !.impl[i].delivery = delivery,
                                  !.impl[i].transcript = body.transcript,
                                  !.impl[i].called = TRUE]
    /\ UNCHANGED <<dbVars, projectVars, app, pageVars, adminVars, op, peer, lateVars, qt>>

\* ai.models.generateContent: what the generative model does with the
\* prompt; the implementations compared get the same answer
generateContent(reply) ==
    /\ gen.reply = NoReply
    /\ \E i \in Impls : gen.impl[i].pc = "calling"
    /\ gen' = [gen EXCEPT !.reply = reply]
    /\ UNCHANGED <<dbVars, projectVars, app, pageVars, adminVars, op, peer, lateVars, qt>>

\* generateQuizQuestions returns or throws, and the handler answers
handlerAnswers(i) ==
    /\ gen.impl[i].pc = "calling"
    /\ gen.reply # NoReply
    /\ LET result == generateQuizQuestions(gen.apiKey, gen.impl[i].transcript, gen.reply)
       IN gen' = [gen EXCEPT
                    !.impl[i].pc = "done",
                    !.impl[i].response =
                        IF result.ok THEN QuestionsResponse(result.questions)
                        ELSE ErrorResponse(500, ErrorMessage(result.error))]
    /\ UNCHANGED <<dbVars, projectVars, app, pageVars, adminVars, op, peer, lateVars, qt>>

GenStep ==
    \/ \E method \in Methods, apiKey \in BOOLEAN, body \in RawBodies :
         SendRequest(method, apiKey, body)
    \/ \E i \in Impls, delivery \in {"raw", "parsed"} : handler(i, delivery)
    \/ \E reply \in Replies : generateContent(reply)
    \/ \E i \in Impls : handlerAnswers(i)

\* ------------------------------------------------- users: add and rename
\* the administrator starts one operation at a time
CanStart ==
    /\ Rendered(Admin) = "children"
    /\ op.pc = "idle" /\ del.pc = "idle" /\ rep.pc = "idle"
    /\ op.calls < MaxCalls

\* variant: the mirror is written when the insert is sent, not when it is
\* answered
handleAddUserOptimistic(name) ==
    /\ CanStart
    /\ Trim(name) # <<>>
    /\ nextUserId <= MaxUserId
    /\ op' = [OpStarted("addUser", "insert") EXCEPT !.userName = Trim(name)]
    /\ app' = [app EXCEPT ![Admin].users = @ \cup {[id |-> nextUserId, name |-> Trim(name)]}]
    /\ UNCHANGED <<dbVars, projectVars, message, pageVars, del, rep, gen, peer, lateVars, qt>>

\* MasterListManager.handleAddUser, AppContext.addUser up to the insert
handleAddUser(name) ==
    /\ CanStart
    /\ Trim(name) # <<>>
    /\ nextUserId <= MaxUserId
    /\ op' = [OpStarted("addUser", "insert") EXCEPT !.userName = Trim(name)]
    /\ UNCHANGED <<dbVars, projectVars, app, message, pageVars, del, rep, gen, peer, lateVars, qt>>

\* the insert is answered with the new row
AddUserOK ==
    /\ op.name = "addUser" /\ op.pc = "insert"
    /\ LET newUser == [id |-> nextUserId, name |-> op.userName]
       IN /\ dbUsers' = dbUsers \cup {newUser}
          /\ app' = [app EXCEPT ![Admin].users = @ \cup {newUser}]
    /\ nextUserId' = nextUserId + 1
    /\ message' = Msg("added")
    /\ op' = OpEnded("resolved")
    /\ UNCHANGED <<dbSubs, dbAtts, projectVars, pageVars, del, rep, gen, peer, lateVars, qt>>

\* MasterListManager.handleUpdateUser, AppContext.updateUser up to the update
handleUpdateUser(id, name) ==
    /\ CanStart
    /\ \E u \in app[Admin].users : u.id = id
    /\ Trim(name) # <<>>
    /\ op' = [OpStarted("updateUser", "update") EXCEPT !.id = id,
                            !.userName = Trim(name)]
    /\ UNCHANGED <<dbVars, projectVars, app, message, pageVars, del, rep, gen, peer, lateVars, qt>>

\* the update is answered with the changed row
UpdateUserOK ==
    /\ op.name = "updateUser" /\ op.pc = "update"
    /\ \E u \in dbUsers : u.id = op.id
    /\ LET updatedUser == [id |-> op.id, name |-> op.userName]
       IN /\ dbUsers' = {IF u.id = op.id THEN updatedUser ELSE u : u \in dbUsers}
          /\ app' = [app EXCEPT ![Admin].users =
                        {IF u.id = op.id THEN updatedUser ELSE u : u \in @}]
    /\ message' = Msg("updated")
    /\ op' = OpEnded("resolved")
    /\ UNCHANGED <<dbSubs, dbAtts, nextUserId, projectVars, pageVars, del, rep, gen, peer, lateVars, qt>>

\* ------------------------------------------------- projects
\* AppContext.createProject, supabaseService.addProject up to the insert
createProject(questions) ==
    /\ CanStart
    /\ nextProjectId <= MaxProjectId
    /\ op' = [OpStarted("createProject", "insertProject") EXCEPT !.data = ProjectData(TRUE, TRUE, questions)]
    /\ UNCHANGED <<dbVars, projectVars, app, message, pageVars, del, rep, gen, peer, lateVars, qt>>

\* 1. the project row is inserted
AddProjectInsert ==
    /\ op.name = "createProject" /\ op.pc = "insertProject"
    /\ dbProjects' = dbProjects \cup {[id |-> nextProjectId, name |-> op.data.name]}
    /\ nextProjectId' = nextProjectId + 1
    /\ op' = [op EXCEPT !.id = nextProjectId,
                        !.pc = IF Len(op.data.questions) > 0 THEN "insertQuestions"
                               ELSE "fetch"]
    /\ UNCHANGED <<dbVars, dbQuestions, app, message, pageVars, del, rep, gen, peer, lateVars, qt>>

\* AppContext.updateProject, supabaseService.updateProject up to its first
\* request; the project is one of the mirror other than the published one
updateProject(id, projectData) ==
    /\ CanStart
    /\ id # ProjectId
    /\ \E pr \in app[Admin].projects : pr.id = id
    /\ op' = [OpStarted("updateProject", UpdateProjectFirst(projectData)) EXCEPT
                 !.id = id, !.data = projectData]
    /\ UNCHANGED <<dbVars, projectVars, app, message, pageVars, del, rep, gen, peer, lateVars, qt>>

\* 1. the base project info is updated
UpdateProjectBase ==
    /\ op.name = "updateProject" /\ op.pc = "updateBase"
    /\ dbProjects' = {IF row.id = op.id THEN [row EXCEPT !.name = op.data.name] ELSE row :
                        row \in dbProjects}
    /\ op' = [op EXCEPT !.pc = UpdateProjectAfterBase(op.data)]
    /\ UNCHANGED <<dbVars, dbQuestions, nextProjectId, app, message, pageVars, del, rep, gen, peer, lateVars, qt>>

\* 2. all existing questions of the project are deleted
UpdateProjectDelete ==
    /\ op.name = "updateProject" /\ op.pc = "deleteQuestions"
    /\ dbQuestions' = SelectSeq(dbQuestions, LAMBDA r : r.project_id # op.id)
    /\ op' = [op EXCEPT !.pc = UpdateProjectAfterDelete(op.data)]
    /\ UNCHANGED <<dbVars, dbProjects, nextProjectId, app, message, pageVars, del, rep, gen, peer, lateVars, qt>>

\* the questions of the call are inserted (addProject 2., updateProject 2.)
InsertQuestions ==
    /\ op.name \in {"createProject", "updateProject"} /\ op.pc = "insertQuestions"
    /\ dbQuestions' = dbQuestions \o questionsToInsert(op.data.questions, op.id)
    /\ op' = [op EXCEPT !.pc = "fetch"]
    /\ UNCHANGED <<dbVars, dbProjects, nextProjectId, app, message, pageVars, del, rep, gen, peer, lateVars, qt>>

\* 3. getProjectById is answered and the mirror takes the project over
FetchFullProject ==
    /\ op.name \in {"createProject", "updateProject"} /\ op.pc = "fetch"
    /\ \E row \in dbProjects :
         /\ row.id = op.id
         /\ app' = [app EXCEPT ![Admin].projects =
                       IF op.name = "createProject" THEN @ \cup {mapProjectFromDb(row)}
                       ELSE {IF pr.id = op.id THEN mapProjectFromDb(row) ELSE pr : pr \in @}]
    /\ op' = OpEnded("resolved")
    /\ UNCHANGED <<dbVars, projectVars, message, pageVars, del, rep, gen, peer, lateVars, qt>>

\* AppContext.deleteProject up to the delete
deleteProject(id) ==
    /\ CanStart
    /\ id # ProjectId
    /\ \E pr \in app[Admin].projects : pr.id = id
    /\ op' = [OpStarted("deleteProject", "delete") EXCEPT !.id = id]
    /\ UNCHANGED <<dbVars, projectVars, app, message, pageVars, del, rep, gen, peer, lateVars, qt>>

\* the delete is answered; the rows that belong to the project go with it
\* (ON DELETE CASCADE, as the comment in deleteProject says)
DeleteProjectOK ==
    /\ op.name = "deleteProject" /\ op.pc = "delete"
    /\ dbProjects' = {row \in dbProjects : row.id # op.id}
    /\ dbQuestions' = SelectSeq(dbQuestions, LAMBDA r : r.project_id # op.id)
    /\ dbSubs' = SelectSeq(dbSubs, LAMBDA r : r.projectId # op.id)
    /\ dbAtts' = SelectSeq(dbAtts, LAMBDA r : r.projectId # op.id)
    /\ app' = [app EXCEPT ![Admin].projects = {pr \in @ : pr.id # op.id}]
    /\ op' = OpEnded("resolved")
    /\ UNCHANGED <<dbUsers, nextUserId, nextProjectId, message, pageVars, del, rep, gen, peer, lateVars, qt>>

\* a request of the operation in flight is rejected: the service throws,
\* performAction sets error and rethrows; handleAddUser and handleUpdateUser
\* show their message
StoreCallFails ==
    /\ op.pc # "idle"
    /\ app' = [app EXCEPT ![Admin].error = "store"]
    /\ message' = CASE op.name = "addUser" -> Msg("addFailed")
                    [] op.name = "updateUser" -> Msg("updateFailed")
                    [] OTHER -> message
    /\ op' = OpEnded("rejected")
    /\ UNCHANGED <<dbVars, projectVars, pageVars, del, rep, gen, peer, lateVars, qt>>

\* ------------------------------------------------- a second administrator
\* supabaseService.updateProject called with a question list from another
\* browser; the call is followed when it overlaps with a call of this
\* session that carries a question list for the same project, and its
\* session's mirror is not followed
peerUpdateProject(id, questions) ==
    /\ peer.pc = "idle"
    /\ op.name = "updateProject" /\ op.id = id /\ op.data.hasQuestions
    /\ peer' = [pc |-> "deleteQuestions", id |-> id, questions |-> questions]
    /\ UNCHANGED <<dbVars, projectVars, app, message, pageVars, del, rep, gen, op, lateVars, qt>>

\* 2. all existing questions of the project are deleted
PeerUpdateProjectDelete ==
    /\ peer.pc = "deleteQuestions"
    /\ dbQuestions' = SelectSeq(dbQuestions, LAMBDA r : r.project_id # peer.id)
    /\ peer' = [peer EXCEPT !.pc = IF Len(peer.questions) > 0 THEN "insertQuestions"
                                   ELSE "fetch"]
    /\ UNCHANGED <<dbVars, dbProjects, nextProjectId, app, message, pageVars, del, rep, gen, op, lateVars, qt>>

\* the questions of the call are inserted
PeerInsertQuestions ==
    /\ peer.pc = "insertQuestions"
    /\ dbQuestions' = dbQuestions \o questionsToInsert(peer.questions, peer.id)
    /\ peer' = [peer EXCEPT !.pc = "fetch"]
    /\ UNCHANGED <<dbVars, dbProjects, nextProjectId, app, message, pageVars, del, rep, gen, op, lateVars, qt>>

\* 3. getProjectById is answered: the call has succeeded
PeerFetchFullProject ==
    /\ peer.pc = "fetch"
    /\ peer' = [peer EXCEPT !.pc = "done"]
    /\ UNCHANGED <<dbVars, projectVars, app, message, pageVars, del, rep, gen, op, lateVars, qt>>

PeerStep ==
    \/ \E id \in 1..MaxProjectId : peerUpdateProject(id, PeerQuestions)
    \/ PeerUpdateProjectDelete
    \/ PeerInsertQuestions
    \/ PeerFetchFullProject

\* ------------------------------------------------- no client configured
\* variant: performAction does not look at the client and addUser goes on
performActionClientUnchecked(s) ==
    /\ ~app[s].supabaseClient
    /\ nextUserId <= MaxUserId
    /\ LET newUser == [id |-> nextUserId, name |-> <<"b">>]
       IN /\ dbUsers' = dbUsers \cup {newUser}
          /\ app' = [app EXCEPT ![s].users = @ \cup {newUser}]
    /\ nextUserId' = nextUserId + 1
    /\ UNCHANGED <<dbSubs, dbAtts, projectVars, message, pageVars, del, rep, gen, op, peer, lateVars, qt>>

\* an operation built on performAction (addUser, updateUser, deleteUser,
\* getProjectById, createProject, updateProject, deleteProject, addSubmission,
\* addAttempt) is called in a session without client: setError and return.
\* No component that calls one is rendered then; the call is followed for
\* any holder of the context value
performActionNotConfigured(s) ==
    /\ ~app[s].supabaseClient
    /\ app' = [app EXCEPT ![s].error = "notConfigured"]
    /\ UNCHANGED <<dbVars, projectVars, message, pageVars, del, rep, gen, op, peer, lateVars, qt>>

\* replaceUsers in a session without client: setError and throw
replaceUsersNotConfigured(s) ==
    /\ ~app[s].supabaseClient
    /\ app' = [app EXCEPT ![s].error = "notConfigured"]
    /\ UNCHANGED <<dbVars, projectVars, message, pageVars, del, rep, gen, op, peer, lateVars, qt>>

NotConfiguredStep ==
    \/ performActionNotConfigured(Admin)
    \/ replaceUsersNotConfigured(Admin)

\* the user and project operations of the administrator's session
StoreStep ==
    \/ \E name \in NewUserNames : handleAddUser(name)
    \/ AddUserOK
    \/ \E id \in UserIds, name \in NewUserNames : handleUpdateUser(id, name)
    \/ UpdateUserOK
    \/ \E questions \in QuestionLists : createProject(questions)
    \/ AddProjectInsert
    \/ \E id \in 1..MaxProjectId, projectData \in ProjectDataSamples :
         updateProject(id, projectData)
    \/ UpdateProjectBase
    \/ UpdateProjectDelete
    \/ InsertQuestions
    \/ FetchFullProject
    \/ \E id \in 1..MaxProjectId : deleteProject(id)
    \/ DeleteProjectOK
    \/ StoreCallFails

DeleteStep ==
    \/ LoadInitialDataOK(Admin)
    \/ \E id \in UserIds : handleDeleteUser(id)
    \/ DeleteUserCheck
    \/ DeleteUserCheckFail
    \/ DeleteUserDelete
    \/ DeleteUserDeleteFail

AdminStep ==
    \/ LoadInitialDataOK(Admin)
    \/ LoadInitialDataFail(Admin)
    \/ \E id \in UserIds : handleDeleteUser(id)
    \/ DeleteUserCheck
    \/ DeleteUserCheckFail
    \/ DeleteUserDelete
    \/ DeleteUserDeleteFail
    \/ \E usersData \in IncomingRosters : replaceUsers(usersData)
    \/ ReplaceFetchUsers
    \/ ReplaceFetchSubmissions
    \/ ReplaceDelete
    \/ ReplaceInsert
    \/ ReplaceFinal
    \/ ReplaceFail

\* ------------------------------------------------- one session's steps
TabStep(t) ==
    \/ LoadInitialDataOK(t)
    \/ LoadInitialDataFail(t)
    \/ FetchProjectOK(t)
    \/ FetchProjectUnavailable(t)
    \/ \E u \in UserIds : handleStartQuiz(t, u)
    \/ handleStartGuest(t)
    \/ onRetry(t)
    \/ \E q \in QuestionIds, k \in OptionChoices : handleAnswer(t, q, k)
    \/ gradeQuiz(t)
    \/ tryAgain(t)
    \/ \E i \in 1..MaxGrades : AddAttemptOK(t, i)
    \/ \E i \in 1..MaxGrades : AddAttemptFail(t, i)
    \/ handleSubmitGuest(t)
    \/ handleFinalSubmit(t)
    \/ SubmitCountOK(t)
    \/ SubmitCountFail(t)
    \/ AddSubmissionOK(t)
    \/ AddSubmissionFail(t)

\* the respondents' sessions
Next == \E t \in Tabs : TabStep(t)

Spec == Init /\ [][Next]_vars

\* the administrator's roster page next to one respondent's session
RegisteredStep(t) ==
    \/ LoadInitialDataOK(t)
    \/ FetchProjectOK(t)
    \/ \E u \in UserIds : handleStartQuiz(t, u)
    \/ \E q \in QuestionIds, k \in OptionChoices : handleAnswer(t, q, k)
    \/ gradeQuiz(t)
    \/ tryAgain(t)
    \/ \E i \in 1..MaxGrades : AddAttemptOK(t, i)
    \/ handleFinalSubmit(t)
    \/ SubmitCountOK(t)
    \/ AddSubmissionOK(t)

NextRoster == RegisteredStep("t1") \/ DeleteStep

SpecRoster == Init /\ [][NextRoster]_vars

NextAdmin == AdminStep
SpecAdmin == Init /\ [][NextAdmin]_vars

\* one respondent's session in which the quiz page is also led from one
\* project to another
NextNav == TabStep("t1") \/ \E p \in ProjectIds : ProjectIdChanges("t1", p)
SpecNav == Init /\ [][NextNav]_vars

\* a registered respondent's operations, the rejected requests included
RespondentStep(t) ==
    \/ RegisteredStep(t)
    \/ \E i \in 1..MaxGrades : AddAttemptFail(t, i)
    \/ SubmitCountFail(t)
    \/ AddSubmissionFail(t)

\* a QuizTaker on its own
NextTaker == QtStep
SpecTaker == InitTaker /\ [][NextTaker]_vars

\* one respondent's page with its fetches, its route changes, its status
\* check and its unmounting
NextLate ==
    \/ LoadInitialDataOK("t1")
    \/ FetchProjectOK("t1")
    \/ FetchProjectUnavailable("t1")
    \/ \E p \in ProjectIds : ProjectIdChanges("t1", p)
    \/ \E u \in UserIds : handleStartQuiz("t1", u)
    \/ handleStartGuest("t1")
    \/ Unmount("t1")
    \/ FetchProjectLate("t1")
    \/ \E ready \in BOOLEAN : checkApiStatus("t1", ready)
SpecLate == Init /\ [][NextLate]_vars

\* the operations of the state store: in the administrator's session, in a
\* respondent's session, or in a session without client
NextStore ==
    StoreStep \/ DeleteStep \/ PeerStep \/ RespondentStep("t1") \/ NotConfiguredStep
SpecStore == InitStore /\ [][NextStore]_vars

\* the administrator's session with the store operations of AppContext, and
\* no other session writing
NextProject == LoadInitialDataOK(Admin) \/ StoreStep
SpecProject == Init /\ [][NextProject]_vars

\* the question generation endpoint
NextGen == GenStep
SpecGen == Init /\ [][NextGen]_vars

\* =================================================================== claims
\* the questions the recorded answers get right, counted as a set
NumCorrect(answers) ==
    Cardinality({i \in DOMAIN Questions :
                    /\ Questions[i].id \in DOMAIN answers
                    /\ answers[Questions[i].id] = Questions[i].correct_answer})

SubmissionsOf(u) == RowsFor(dbSubs, ProjectId, u)
AttemptsOf(u) == RowsFor(dbAtts, ProjectId, u)

C2_AttemptCountIsTotal ==
    [][\A t \in Tabs :
          (net[t].submit = "insert" /\ net'[t].submit = "idle"
             /\ Len(dbSubs') = Len(dbSubs) + 1)
          => dbSubs'[Len(dbSubs')].attempt_count = graded[quiz[t].currentUserId]]_vars

\* C3: the store holds at most one Submission per (project, user) pair.
C3_OneSubmissionPerPair ==
    \A u \in UserIds : Cardinality(SubmissionsOf(u)) <= 1

\* C4: no step of a guest session changes the Submissions or Attempts of the
\* store or of the session's mirror, and a guest whose result is a perfect
\* score can submit, which takes the page to complete.
C4_GuestCreatesNoRecord ==
    /\ [](\A t \in Tabs :
            (quiz[t].isGuest /\ SubmitButtonShown(t)) => ENABLED handleSubmitGuest(t))
    /\ [][\A t \in Tabs :
            (quiz[t].isGuest /\ TabStep(t))
               => /\ dbSubs' = dbSubs
                  /\ dbAtts' = dbAtts
                  /\ app'[t].submissions = app[t].submissions
                  /\ app'[t].attempts = app[t].attempts
                  /\ net'[t] = net[t]
                  /\ (SubmitButtonShown(t) /\ quiz'[t].pageState # "taking"
                        => quiz'[t].pageState = "complete")]_vars

C4_Witness ==
    \E t \in Tabs :
        /\ quiz[t].isGuest
        /\ quiz[t].pageState = "complete"
        /\ app[t].submissions = <<>>
        /\ app[t].attempts = <<>>

\* C5: when the project is loaded, the session is not a guest session and the
\* session's submissions hold a Submission for (project, currentUserId), the
\* page state is complete.
C5_SubmittedIsComplete ==
    \A t \in Tabs :
        (/\ quiz[t].project # Null
         /\ ~quiz[t].isGuest
         /\ quiz[t].currentUserId # Null
         /\ HasSubmission(app[t].submissions, quiz[t].project, quiz[t].currentUserId))
        => quiz[t].pageState = "complete"

C5_Witness ==
    \E t \in Tabs :
        /\ quiz[t].project # Null
        /\ ~quiz[t].isGuest
        /\ quiz[t].currentUserId # Null
        /\ HasSubmission(app[t].submissions, quiz[t].project, quiz[t].currentUserId)
        /\ quiz[t].pageState = "complete"

\* C6: when a registered respondent's submit call ends without a Submission
\* (the count query or the insert was rejected), the page stays in taking with
\* the perfect result displayed, the mirror's submissions are unchanged, one
\* alert is shown and the submit button is enabled again.
C6_FailedSubmitIsRetryable ==
    [][\A t \in Tabs :
          (net[t].submit # "idle" /\ net'[t].submit = "idle" /\ dbSubs' = dbSubs)
          => /\ quiz'[t] = quiz[t]
             /\ quiz'[t].pageState = "taking"
             /\ taker'[t].showResult
             /\ taker'[t].score = taker[t].score
             /\ taker'[t].answers = taker[t].answers
             /\ isPerfectScore(taker'[t])
             /\ app'[t].submissions = app[t].submissions
             /\ alerted'[t]
             /\ ~taker'[t].isSubmitting
             /\ SubmitButtonShown(t)']_vars

C6_Witness ==
    \E t \in Tabs :
        /\ alerted[t]
        /\ SubmitButtonShown(t)
        /\ ~taker[t].isSubmitting
        /\ net[t].submit = "idle"
        /\ ~HasSubmission(app[t].submissions, quiz[t].project, quiz[t].currentUserId)

\* C7: once no attempt insert is in flight, the store holds one Attempt per
\* grade action of a registered respondent, and every Submission of the store
\* has an Attempt of the same pair whose score is the number of questions.
C7_EveryGradeRecorded ==
    (\A t \in Tabs : net[t].attempts = <<>>)
    => /\ \A u \in UserIds : Cardinality(AttemptsOf(u)) = graded[u]
       /\ \A i \in DOMAIN dbSubs :
             \E j \in DOMAIN dbAtts :
                /\ dbAtts[j].projectId = dbSubs[i].projectId
                /\ dbAtts[j].userId = dbSubs[i].userId
                /\ dbAtts[j].score = Len(Questions)

\* C8: every Submission's userId names a user of the users collection.
C8_SubmissionUserExists ==
    \A i \in DOMAIN dbSubs : \E u \in dbUsers : u.id = dbSubs[i].userId

\* C9: when deleteUser's query for the submissions of a user who has a
\* Submission comes back, the call ends there: users, submissions and attempts
\* of the store and the users mirror are unchanged, and when the store
\* answered the query the message is the integrity message.
C9_DeleteSubmittedUserFails ==
    [][(/\ del.pc = "check"
        /\ del'.pc # "check"
        /\ \E i \in DOMAIN dbSubs : dbSubs[i].userId = del.id)
       => /\ del' = DelIdle
          /\ dbUsers' = dbUsers
          /\ dbSubs' = dbSubs
          /\ dbAtts' = dbAtts
          /\ app'[Admin].users = app[Admin].users
          /\ message'.kind \in {"integrity", "deleteFailed"}
          /\ (app'[Admin].error = "hasSubmissions") <=> (message' = Msg("integrity"))
          /\ DeleteUserCheck => message' = Msg("integrity")]_vars

C9_Witness ==
    /\ message = Msg("integrity")
    /\ app[Admin].error = "hasSubmissions"
    /\ \E u \in dbUsers : \E i \in DOMAIN dbSubs : dbSubs[i].userId = u.id
    /\ del = DelIdle

\* C10: replaceUsers inserts one user for every incoming trimmed name that is
\* not an existing trimmed name, deletes the existing users whose name is not
\* incoming, and reports the sizes of these sets.
C10_ReplaceIsSetReconciliation ==
    [][LET incoming == {Trim(rep.usersData[i].name) : i \in DOMAIN rep.usersData}
           existing == {Trim(u.name) : u \in rep.existingUsers}
           added == incoming \ existing
           removed == {u \in rep.existingUsers : Trim(u.name) \notin incoming}
       IN /\ (rep.pc = "insert" /\ rep'.pc = "final")
               => /\ {Trim(u.name) : u \in dbUsers' \ dbUsers} = added
                  /\ Cardinality(dbUsers' \ dbUsers) = Cardinality(added)
          /\ (rep.pc = "delete" /\ rep'.pc \in {"insert", "final"})
               => /\ dbUsers \ dbUsers' \subseteq removed
                  /\ {u.id : u \in dbUsers \ dbUsers'} = rep.deletableUserIds
                  /\ {Trim(u.name) : u \in dbUsers \ dbUsers'} \cap added = {}
          /\ (rep.pc = "final" /\ message'.kind = "replaced")
               => /\ message'.added = Cardinality(added)
                  /\ message'.deleted + message'.protected = Cardinality(removed)]_vars

\* ------------------------------------------------------------------- C11
\* an implementation has answered after the generative model sent an array
AnsweredArray(i) ==
    /\ gen.impl[i].pc = "done"
    /\ gen.impl[i].called
    /\ gen.reply.kind = "array"

\* the three conditions on an item, as the claim words them
C11_NonEmptyText(q) ==
    q.kind = "object" /\ q.question_text.type = "string" /\ q.question_text.chars # <<>>
C11_NonBlankText(q) ==
    /\ q.kind = "object" /\ q.question_text.type = "string"
    /\ \E k \in DOMAIN q.question_text.chars : q.question_text.chars[k] # " "
C11_FourStringOptions(q) ==
    q.kind = "object" /\ q.options.type = "array" /\ q.options.len = 4 /\ q.options.strings
C11_AnswerInRange(q) ==
    /\ q.kind = "object" /\ q.correct_answer.type = "number"
    /\ 2 <= q.correct_answer.twice /\ q.correct_answer.twice <= 8

\* the items the validator hands on are those of `kept`, in their order;
\* when there is none the operation fails as a whole
C11_Returns(i, kept) ==
    IF kept # <<>> THEN gen.impl[i].response = QuestionsResponse(kept)
    ELSE gen.impl[i].response.status = 500 /\ gen.impl[i].response.kind = "error"

\* C11, as stated: the validator returns exactly the items, in their
\* original order, that have a non-empty question_text, exactly 4 string
\* options and 1 <= correct_answer <= 4, and drops every other item without
\* raising an error.  Fails: a question_text of spaces only is not empty,
\* and the item is dropped.
C11_KeepsNonEmptyText ==
    \A i \in Impls :
        AnsweredArray(i) =>
            C11_Returns(i, SelectSeq(gen.reply.items,
                LAMBDA q : C11_NonEmptyText(q) /\ C11_FourStringOptions(q)
                           /\ C11_AnswerInRange(q)))

\* C11, amended: the validator returns exactly the items, in their original
\* order, whose question_text is a string that is not empty after trimming
\* white space, whose options are exactly 4 strings and whose correct_answer
\* is a number with 1 <= correct_answer <= 4; every other item (null and
\* non-object items included) is dropped without an error raised for it.
C11_KeepsNonBlankText ==
    \A i \in Impls :
        AnsweredArray(i) =>
            C11_Returns(i, SelectSeq(gen.reply.items,
                LAMBDA q : C11_NonBlankText(q) /\ C11_FourStringOptions(q)
                           /\ C11_AnswerInRange(q)))

\* an array with a blank question text, a null item and a valid item after
\* them has been filtered down to the valid item
C11_Witness ==
    \E i \in Impls :
        /\ AnsweredArray(i)
        /\ Len(gen.reply.items) = 2
        /\ gen.reply.items[1].kind = "object"
        /\ gen.reply.items[1].question_text = Str(<<" ">>)
        /\ gen.reply.items[2] = GoodItem
        /\ gen.impl[i].response = QuestionsResponse(<<GoodItem>>)

\* ------------------------------------------------------------------- C12
\* C12: when no item of the generation response survives validation (an
\* empty array included), generation fails with a non-empty error message
\* and the endpoint answers 500 with that message; a 200 response never
\* carries an empty questions array.
C12_NoQuestionsIsAnError ==
    \A i \in Impls :
        /\ (AnsweredArray(i)
            /\ \A k \in DOMAIN gen.reply.items :
                 ~(C11_NonBlankText(gen.reply.items[k])
                   /\ C11_FourStringOptions(gen.reply.items[k])
                   /\ C11_AnswerInRange(gen.reply.items[k])))
           => /\ gen.impl[i].response.status = 500
              /\ gen.impl[i].response.kind = "error"
              /\ gen.impl[i].response.error = "noValidQuestions"
        /\ (gen.impl[i].response.status = 200 /\ gen.impl[i].response.kind = "questions")
           => gen.impl[i].response.questions # <<>>

\* an empty array has been answered with 500 and the message
C12_Witness ==
    \E i \in Impls :
        /\ AnsweredArray(i)
        /\ gen.reply.items = <<>>
        /\ gen.impl[i].response = ErrorResponse(500, "noValidQuestions")

\* ------------------------------------------------------------------- C13
\* the transcript of the request is missing, not a string, empty or blank
C13_NoTranscript ==
    \/ gen.body.kind # "object"
    \/ gen.body.transcript.type # "string"
    \/ \A k \in DOMAIN gen.body.transcript.chars : gen.body.transcript.chars[k] = " "

\* C13: a POST whose transcript is missing, not a string, empty or only
\* white space is answered with status 400 whatever questionCount is, and
\* the generation service is not called.  (Stated for a configured
\* credential: without one the endpoint answers 503, see C14.)
C13_NoTranscriptIs400 ==
    \A i \in Impls :
        (gen.impl[i].pc = "done" /\ gen.method = "POST" /\ gen.apiKey /\ C13_NoTranscript)
        => gen.impl[i].response.status = 400 /\ ~gen.impl[i].called

\* ------------------------------------------------------------------- C14
\* C14: GET gives 200 with ready true iff a credential is configured; a
\* method other than GET and POST gives 405 with or without a credential; a
\* POST without a credential gives 503 whatever the body; and the three
\* implementations answer the same request with the same status and body.
C14_SameAnswerEverywhere ==
    \A i \in Impls :
        gen.impl[i].pc = "done" =>
            /\ gen.method = "GET" => gen.impl[i].response = ReadyResponse(gen.apiKey)
            /\ gen.method \notin {"GET", "POST"} => gen.impl[i].response.status = 405
            /\ (gen.method = "POST" /\ ~gen.apiKey) => gen.impl[i].response.status = 503
            /\ \A j \in Impls :
                 gen.impl[j].pc = "done" =>
                     gen.impl[j].response = gen.impl[i].response

\* ------------------------------------------------------------------- C15
\* C15: whenever a project has just been loaded into the quiz page, also
\* when the project id of an open page changed to another project, the page
\* state is start with no identity selected: neither taking or complete,
\* nor the selected user, nor the guest flag carry over.
C15_LoadedProjectStartsFresh ==
    [][\A t \in Tabs :
         (quiz[t].isLoading /\ ~quiz'[t].isLoading /\ quiz'[t].project = quiz[t].projectId)
         => /\ quiz'[t].pageState = "start"
            /\ quiz'[t].currentUserId = Null
            /\ ~quiz'[t].isGuest]_vars

\* ------------------------------------------------------------------- C16
\* C16: for a registered respondent complete is terminal: once the page
\* state is complete with a registered identity no step changes it.  For a
\* guest the only step the complete page offers is the return to start: it
\* sets the page state to start and creates no record.
C16_CompleteIsTerminal ==
    [][\A t \in Tabs :
         /\ (quiz[t].pageState = "complete" /\ ~quiz[t].isGuest)
            => quiz'[t].pageState = "complete"
         /\ (quiz[t].pageState = "complete" /\ quiz[t].isGuest
             /\ <<quiz[t], taker[t], net[t], app[t]>> # <<quiz'[t], taker'[t], net'[t], app'[t]>>)
            => /\ quiz'[t] = [quiz[t] EXCEPT !.pageState = "start"]
               /\ <<dbSubs, dbAtts, app, net>> = <<dbSubs', dbAtts', app', net'>>]_vars

\* a registered respondent is on the complete page, and a guest is back on
\* the start page after the return from complete
C16_Witness ==
    \E t, g \in Tabs :
        /\ quiz[t].pageState = "complete" /\ ~quiz[t].isGuest
        /\ quiz[t].currentUserId # Null
        /\ quiz[g].pageState = "start" /\ quiz[g].isGuest

Mirror(s) == <<app[s].users, app[s].projects, app[s].submissions, app[s].attempts>>

\* the step in which the store answers the last request of a mutation of the
\* administrator's session, or an insert of a respondent's session
C18_AdminCallSucceeds ==
    \/ op.pc # "idle" /\ op'.pc = "idle" /\ op'.result = "resolved"
    \/ del.pc = "delete" /\ del'.pc = "idle" /\ dbUsers' # dbUsers
C18_AdminCallFails ==
    \/ op.pc # "idle" /\ op'.pc = "idle" /\ op'.result = "rejected"
    \/ del.pc # "idle" /\ del'.pc = "idle" /\ dbUsers' = dbUsers
C18_TabCallSucceeds(t) ==
    \/ Len(net'[t].attempts) < Len(net[t].attempts) /\ Len(dbAtts') > Len(dbAtts)
    \/ net[t].submit = "insert" /\ net'[t].submit = "idle" /\ Len(dbSubs') > Len(dbSubs)
C18_AddAttemptFails(t) ==
    Len(net'[t].attempts) < Len(net[t].attempts) /\ dbAtts' = dbAtts
C18_AddSubmissionFails(t) ==
    net[t].submit = "insert" /\ net'[t].submit = "idle" /\ dbSubs' = dbSubs

\* C18: once loaded, the mirror of a session changes only in the step in
\* which the store has answered the session's mutation successfully, and the
\* rows the mirror gains are rows of the store; in the step in which a
\* request of a mutation is rejected the mirror is unchanged, error is set,
\* the caller has the failure (the roster page shows its message, the quiz
\* page its alert for a submission) and nothing of the call stays in flight.
C18_MirrorFollowsStore ==
    [][/\ (Mirror(Admin)' # Mirror(Admin) /\ ~app[Admin].isLoading)
            => /\ C18_AdminCallSucceeds
               /\ app'[Admin].users \ app[Admin].users \subseteq dbUsers'
               /\ app'[Admin].projects \ app[Admin].projects \subseteq getProjects'
       /\ C18_AdminCallFails
            => /\ Mirror(Admin)' = Mirror(Admin)
               /\ app'[Admin].error \in {"store", "hasSubmissions"}
               /\ op'.pc = "idle" /\ del'.pc = "idle"
               /\ op.name \in {"addUser", "updateUser"} \/ del.pc # "idle"
                    => message'.kind \in {"addFailed", "updateFailed",
                                          "integrity", "deleteFailed"}
       /\ \A t \in Tabs :
            /\ (Mirror(t)' # Mirror(t) /\ ~app[t].isLoading)
                 => C18_TabCallSucceeds(t)
            /\ C18_AddAttemptFails(t)
                 => Mirror(t)' = Mirror(t) /\ app'[t].error = "store"
            /\ C18_AddSubmissionFails(t)
                 => /\ Mirror(t)' = Mirror(t) /\ app'[t].error = "store"
                    /\ alerted'[t] /\ ~taker'[t].isSubmitting]_vars

\* an updateProject call was rejected after the store had taken a part of
\* it: error is set and the mirror still shows the project as it was
C18_Witness ==
    /\ op.result = "rejected"
    /\ app[Admin].error = "store"
    /\ app[Admin].projects # getProjects
    /\ app[Admin].projects = {mapProjectFromDb(row) : row \in InitialProjects}

\* ------------------------------------------------------------------- C19
\* C19: a session without client shows the configuration screen, not its
\* children; its mirror stays empty; a step of the session changes nothing
\* but its error, which becomes the configuration error, and leaves every
\* table of the store as it is.
C19_NotConfiguredBlocks ==
    [][\A s \in Sessions :
         ~app[s].supabaseClient =>
            /\ Rendered(s) = "configScreen" /\ Rendered(s)' = "configScreen"
            /\ Mirror(s)' = Mirror(s)
            /\ Mirror(s) = << {}, {}, <<>>, <<>> >>
            /\ app'[s] # app[s] =>
                 /\ app'[s] = [app[s] EXCEPT !.error = "notConfigured"]
                 /\ UNCHANGED <<dbVars, projectVars>>
            /\ ~app'[s].supabaseClient]_vars

\* an operation was called in a session without client
C19_Witness ==
    \E s \in Sessions :
        /\ ~app[s].supabaseClient
        /\ app[s].error = "notConfigured"
        /\ Rendered(s) = "configScreen"
        /\ dbUsers = InitialUsers /\ dbQuestions = InitialQuestions

\* ------------------------------------------------------------------- C20
\* what the project's stored questions may be when a call with list
\* questions succeeds: that list, or what another call that replaces the
\* list has put in its place since (nothing yet, or its own list)
C20_Replaced(stored, questions) ==
    \/ stored = questions
    \/ peer.id = op.id /\ peer.pc = "insertQuestions" /\ stored = <<>>
    \/ peer.id = op.id /\ peer.pc \in {"fetch", "done"} /\ stored = peer.questions

\* C20: in the step in which an updateProject call that carries a question
\* list Q succeeds, the stored questions of the project are exactly Q (or
\* the replacement another call has made of them since); no step of an
\* updateProject call that carries no list changes the stored questions.
C20_QuestionsReplaced ==
    [][/\ (op.name = "updateProject" /\ op.data.hasQuestions
           /\ op.pc = "fetch" /\ op'.result = "resolved")
            => C20_Replaced(QuestionsOfProject(dbQuestions', op.id), op.data.questions)
       /\ (op.name = "updateProject" /\ ~op.data.hasQuestions /\ op' # op)
            => dbQuestions' = dbQuestions]_vars

\* ------------------------------------------------------------------- C21
\* C21: whenever the project of a page changes, the page is mounted and the
\* new project is the one of the id the page has (the answer to a fetch
\* started before the id changed, or before the page was unmounted, is not
\* acted upon); the configured flag of an unmounted provider does not change.
C21_LateCompletionIgnored ==
    [][\A t \in Tabs :
         /\ quiz'[t].project # quiz[t].project
              => provider[t].isMounted /\ quiz'[t].project = quiz[t].projectId
         /\ ~provider[t].isMounted
              => provider'[t].isGeminiConfigured = provider[t].isGeminiConfigured]_vars

\* ------------------------------------------------------------------- C22
\* every question of the list has a recorded answer
C22_EveryQuestionAnswered ==
    \A i \in DOMAIN qt.questions : qt.questions[i].id \in DOMAIN qt.answers

\* C22: the grade button is rendered and enabled exactly when the list has
\* a question, no result is displayed and every question has a recorded
\* answer, and onGrade is called only then; while the list is empty neither
\* onGrade nor onSubmit, the only callers of addAttempt and addSubmission,
\* is called.
C22_GradeEnabledIffAllAnswered ==
    [][/\ QtGradeEnabled <=>
             (Len(qt.questions) >= 1 /\ ~qt.showResult /\ C22_EveryQuestionAnswered)
       /\ qt'.onGrade # qt.onGrade =>
             (Len(qt.questions) >= 1 /\ ~qt.showResult /\ C22_EveryQuestionAnswered)
       /\ Len(qt.questions) = 0 =>
             /\ qt'.onGrade = qt.onGrade
             /\ qt'.onSubmit = "pending" => qt.onSubmit = "pending"]_vars

\* ------------------------------------------------------------------- C23
\* the questions whose recorded answer is their correct_answer
C23_RightQuestions(questions, answers) ==
    {i \in DOMAIN questions :
        /\ questions[i].id \in DOMAIN answers
        /\ answers[questions[i].id] = questions[i].correct_answer}

\* C23: the score a grading sets is the number of questions of the list
\* whose recorded answer equals their correct_answer, a question without a
\* recorded answer not among them, and lies between 0 and the number of
\* questions.
C23_ScoreCountsRightAnswers ==
    [][qt'.onGrade # qt.onGrade =>
         /\ qt'.score = Cardinality(C23_RightQuestions(qt.questions, qt.answers))
         /\ qt'.score >= 0 /\ qt'.score <= Len(qt.questions)
         /\ qt'.showResult]_vars

\* a list of two questions was graded with one right answer and one
\* question without a recorded answer
C23_Witness ==
    /\ qt.showResult /\ qt.onGrade >= 1
    /\ Len(qt.questions) = 2
    /\ qt.score = 1
    /\ \E i \in DOMAIN qt.questions : qt.questions[i].id \notin DOMAIN qt.answers

\* ------------------------------------------------------------------- C24
\* the submit button is rendered, enabled or not
C24_SubmitShown ==
    Len(qt.questions) # 0 /\ qt.showResult /\ PerfectScore(qt.score, qt.questions)

\* C24: the retry button is rendered exactly when a result of a grading is
\* displayed whose score is below the number of questions; clicking it
\* empties the answers, hides the result and sets the score to 0, and leaves
\* the quiz pages, the selected identities and the attempts as they are;
\* the submit button comes to be rendered only by a grading with a perfect
\* score.
C24_RetryClearsAndKeeps ==
    [][/\ QtRetryShown <=>
             (qt.onGrade >= 1 /\ qt.showResult /\ qt.score < Len(qt.questions))
       /\ (qt.showResult /\ ~qt'.showResult /\ qt'.mount = qt.mount) =>
             /\ QtRetryShown
             /\ qt'.answers = <<>> /\ qt'.score = 0
             /\ qt'.questions = qt.questions /\ qt'.onGrade = qt.onGrade
             /\ UNCHANGED <<quiz, dbAtts, app>>
             /\ ~C24_SubmitShown'
       /\ (~C24_SubmitShown /\ C24_SubmitShown') =>
             /\ qt'.onGrade = qt.onGrade + 1
             /\ qt'.score = Len(qt.questions)]_vars

\* ------------------------------------------------------------------- C25
\* C25: at most one call of onSubmit is unsettled at any time; while one is,
\* the submit button is not enabled; and once one has resolved the submit
\* button is never enabled again.
C25_OneSubmissionInFlight ==
    /\ Cardinality(qt.requests) <= 1
    /\ qt.requests # {} => ~QtSubmitEnabled
    /\ qt.onSubmit = "resolved" => ~QtSubmitEnabled

\* ------------------------------------------------------------------- C26
\* C26: every item the validator hands on has a correct_answer that is an
\* integer from 1 to 4 (a number given as twice its value is an integer when
\* that is even); an item whose correct_answer is not an integer is dropped.
C26_SurvivorsHaveIntegerAnswer ==
    \A i \in Impls :
        (AnsweredArray(i) /\ gen.impl[i].response.kind = "questions") =>
            \A k \in DOMAIN gen.impl[i].response.questions :
                LET a == gen.impl[i].response.questions[k].correct_answer
                IN /\ a.type = "number"
                   /\ a.twice % 2 = 0
                   /\ a.twice \div 2 \in 1..NumOptions

\* ------------------------------------------------------------------- C27
\* no two users of the set have the same trimmed name
C27_NamesUnique(users) ==
    \A u, v \in users : Trim(u.name) = Trim(v.name) => u = v

\* C27: when replaceUsers inserts into a table whose trimmed names are
\* unique, they are unique afterwards, whatever names the incoming list
\* repeats; and the added count of its message is the number of distinct
\* trimmed names it has added.
C27_ReplaceKeepsNamesUnique ==
    [][/\ (rep.pc = "insert" /\ rep'.pc = "final" /\ C27_NamesUnique(dbUsers))
            => C27_NamesUnique(dbUsers')
       /\ (rep.pc = "final" /\ message'.kind = "replaced")
            => message'.added =
                 Cardinality({Trim(rep.usersData[i].name) : i \in DOMAIN rep.usersData}
                             \ {Trim(u.name) : u \in rep.existingUsers})]_vars

\* ------------------------------------------------------------------- C28
\* what the tables hold of a project: its row and its questions
C28_Stored(projects, questions, id) ==
    [rows |-> {row \in projects : row.id = id},
     questions |-> QuestionsOfProject(questions, id)]

\* C28: when a request of updateProject is rejected, the store holds of the
\* project the row and the questions it held when the call began (stated
\* for the first operation of the only session that writes: the call began
\* with the initial tables).
C28_FailedUpdateChangesNothing ==
    [][(/\ op.name = "updateProject" /\ op.calls = 1
        /\ op'.pc = "idle" /\ op'.result = "rejected")
       => C28_Stored(dbProjects', dbQuestions', op.id)
            = C28_Stored(InitialProjects, InitialQuestions, op.id)]_vars

\* ------------------------------------------------------------------- C29
\* C29: a quiz page in taking or complete is in exactly one of two
\* situations: a guest with no user selected, or no guest with a user
\* selected.
C29_GuestOrUser ==
    \A t \in Tabs :
        quiz[t].pageState \in {"taking", "complete"} =>
            \/ quiz[t].isGuest /\ quiz[t].currentUserId = Null
            \/ ~quiz[t].isGuest /\ quiz[t].currentUserId # Null

\* one page has been completed by a guest while the other is being taken by
\* a user of the roster
C29_Witness ==
    \E t, r \in Tabs :
        /\ quiz[t].pageState = "complete" /\ quiz[t].isGuest
        /\ quiz[r].pageState = "taking" /\ quiz[r].currentUserId # Null

\* ------------------------------------------------------------------- C30
\* C30: when the first load of a session ends, loading is off and either
\* no error is set and the four mirror collections are what the four reads
\* returned, or the error is set and none of the four collections has
\* changed.
C30_LoadAllOrNothing ==
    [][\A s \in Sessions :
         (app[s].isLoading /\ app'[s] # app[s]) =>
            /\ ~app'[s].isLoading
            /\ \/ /\ app'[s].error = "none"
                  /\ app'[s].users = dbUsers
                  /\ app'[s].projects = getProjects
                  /\ app'[s].submissions = dbSubs
                  /\ app'[s].attempts = dbAtts
               \/ /\ app'[s].error = "store"
                  /\ app'[s].users = app[s].users
                  /\ app'[s].projects = app[s].projects
                  /\ app'[s].submissions = app[s].submissions
                  /\ app'[s].attempts = app[s].attempts]_vars

\* one session has loaded the four collections, another one's load was
\* rejected and its mirror is as empty as before while the store has rows
C30_Witness ==
    \E s, r \in Sessions :
        /\ ~app[s].isLoading /\ app[s].error = "none"
        /\ app[s].users = dbUsers /\ app[s].users # {}
        /\ app[s].projects = getProjects /\ app[s].projects # {}
        /\ ~app[r].isLoading /\ app[r].error = "store"
        /\ app[r].users = {} /\ app[r].projects = {}
        /\ app[r].submissions = <<>> /\ app[r].attempts = <<>>

====
